---- MODULE Spec2Model ----
(***************************************************************************)
(* WorkTimer: the time-entry ledger, the effective-dated customer and      *)
(* bonus tables and the rate resolution used when a span is closed.        *)
(*                                                                         *)
(* The storage functions are those of the tkinter program (src/README.md   *)
(* holds its source from line 67 on); the DearPyGui front end              *)
(* (src/WorkTimer.pyw) calls the same operations on a Database object.     *)
(*                                                                         *)
(* Representation                                                          *)
(*   - a table is a sequence of rows; the autoincrement primary key of a   *)
(*     row is its index;                                                   *)
(*   - a calendar date 'YYYY-MM-DD' is a day number; ISO date strings      *)
(*     compare as the day numbers do;                                      *)
(*   - a timestamp 'YYYY-MM-DD HH:MM:SS' is a number of hours, day d being *)
(*     the hours HoursPerDay*d .. HoursPerDay*d + 23;                      *)
(*   - bonus_percent is held in hundredths (25 is 0.25);                   *)
(*   - a REAL column is <<>> (SQL NULL) or <<u, e>>, the double            *)
(*     u + e * 2^-28; amounts that carry a bonus factor are in hundredths. *)
(***************************************************************************)
EXTENDS Integers, Sequences, FiniteSets, TLC

\* ---------------------------------------------------------------- bounds
\* calendar dates are 1..MaxDate
MaxDate == 2
\* the clock shows the hours 0..MaxHour of a day
MaxHour == 2
\* rows per table
MaxCustomers == 2
MaxProjects == 1
MaxProjectRows == 2
MaxHistoricRows == 3
MaxEditRows == 1
MaxRefreshes == 2
MaxBonus == 3
MaxTime == 2
\* toggles recorded per pair
MaxToggles == 3
MaxQueue == 2
MaxSubmitted == 4

\* ------------------------------------------------------------- constants
\* SQL NULL / Python None in an integer or date column
NULL == -1
\* "* 24" of the elapsed-hours formula
HoursPerDay == 24
\* COALESCE(valid_to, '2099-12-31'), as a day number beyond every date
FarFuture == 2099
\* coalesce(end_date, '2999-12-31') of the startup validation
FarFutureValidate == 2999

\* ---------------------------------------------------------------- inputs
CustomerNames == {"A", "B"}
ProjectNames == {"p"}
Wages == {100, 150}
\* dyadic fractions only: cost * bonus is then exact in double precision
BonusPercents == {25, 50}
Dates == 1..MaxDate
BonusDates == 1..(MaxDate + 1)
\* hours by which the clock advances
Steps == {2}

VARIABLES
    customers,  \* table customers
    projects,   \* table projects
    bonus,      \* table bonus
    time,       \* table time
    now,        \* datetime.now(), in hours
    committed,  \* the tables as of the last conn.commit(): what the file holds
    pc,         \* position inside a handler that is run statement by statement
    toggles,    \* history: per (customer_name, project_name), what each toggle did
    queue,      \* the dispatcher's FIFO of submitted tasks
    submitted,  \* history: how many tasks have been submitted
    executed,   \* history: the ids of the tasks run, in the order they were run
    channels,   \* per caller, the responses put on its response queue
    waiting,    \* per caller, the id of the task whose response it blocks on, or 0
    SELECTED_DATE,  \* global SELECTED_DATE: the date the totals are shown for
    app_data,   \* history: the struct the date picker handed over last
    CURRENT_DATE,   \* global CURRENT_DATE: the day periodic_update saw last
    TIME_ID,    \* global TIME_ID: 0 Day, 1 Week, 2 Month, 3 Year, 4 All-Time
    TYPE_ID,    \* global TYPE_ID: 0 Time, 1 Bonus Wage
    refresh,    \* per thread, where its run_update_ui_task stands
    displayed,  \* the selection the totals on the window were computed for
    checked,    \* the (customer_id, project_id) whose checkbox is ticked
    popup,      \* the pair whose stop popup is open, or NoPopup
    sort_order, \* column sort_order of table customers, by customer_id
    move,       \* where the callback thread stands inside move_header_up/down
    do_con,     \* dict do_con: per customer name with a DevOps client, its state
    message,    \* the text show_message_popup shows, or NoMessage
    saved,      \* history: what the last save_popup_data did
    table,      \* the response the query editor's result table was drawn from
    raised,     \* history: the threads a handler of which raised an exception
    editor,     \* where the callback thread stands inside handle_query_input
    form,       \* history: the form a settings callback read last, and what it did
    texts,      \* per text widget time_<c>_<p> and total_<c>, what it shows
    summary     \* history: the summary and sel_type the last refresh ended with

tables == <<customers, projects, bonus, time>>

\* the dispatcher's bookkeeping
dispatch == <<submitted, executed, channels, waiting>>

\* the globals and widgets of the window
ui == <<SELECTED_DATE, app_data, CURRENT_DATE, TIME_ID, TYPE_ID, refresh, displayed>>

\* the checkboxes of the projects and the stop popup
widgets == <<checked, popup>>

\* the display order of the customers and the move in progress
order == <<sort_order, move>>

\* the DevOps clients, the message popup and the query editor
reports == <<do_con, message, saved, table, raised, editor>>

\* the forms of the settings window
forms == <<form>>

\* the texts of the totals on the window and the summary shown last
totals == <<texts, summary>>

vars == <<customers, projects, bonus, time, now, committed, pc, toggles, queue,
          submitted, executed, channels, waiting, SELECTED_DATE, app_data,
          CURRENT_DATE, TIME_ID, TYPE_ID, refresh, displayed, checked, popup,
          sort_order, move, do_con, message, saved, table, raised, editor,
          form, texts, summary>>

\* ------------------------------------------------------------- utilities
Ids(tbl) == 1..Len(tbl)

Min(S) == CHOOSE x \in S : \A y \in S : x <= y

Max(S) == CHOOSE x \in S : \A y \in S : x >= y

\* date(start_time), now.strftime("%Y-%m-%d")
DateOf(ts) == ts \div HoursPerDay

\* BETWEEN without the COALESCE of the upper bound
Between_nocoalesce(x, lo, hi, far) == lo <= x /\ x <= hi

\* x BETWEEN lo AND COALESCE(hi, far)
Between(x, lo, hi, far) == lo <= x /\ x <= (IF hi = NULL THEN far ELSE hi)

\* the dates table: one row per calendar date of the horizon
dates == Dates

\* ------------------------------------------------------ rate resolution
\* __get_customer_id: first matching row, -1 when there is none
get_customer_id(customer_name, date) ==
    LET hit == {i \in Ids(customers) :
                   /\ customers[i].customer_name = customer_name
                   /\ Between(date, customers[i].valid_from,
                              customers[i].valid_to, FarFuture)}
    IN IF hit = {} THEN -1 ELSE Min(hit)

\* __get_project_id: first row with that name, -1 when there is none
get_project_id(project_name) ==
    LET hit == {i \in Ids(projects) : projects[i].project_name = project_name}
    IN IF hit = {} THEN -1 ELSE Min(hit)

\* SELECT wage FROM customers where customer_id = ..; 0 when empty
cost_rate(customer_id) ==
    IF customer_id \in Ids(customers) THEN customers[customer_id].wage ELSE 0

\* SELECT bonus_percent FROM bonus where date between start_date and
\* coalesce(end_date, '2099-12-31'); first row, 0.0 when empty
bonus_rate(date) ==
    LET hit == {i \in Ids(bonus) :
                   Between(date, bonus[i].start_date, bonus[i].end_date, FarFuture)}
    IN IF hit = {} THEN 0 ELSE bonus[Min(hit)].bonus_percent

\* the wage insert_time_row bills a customer at on a date
resolve_wage(customer_name, date) == cost_rate(get_customer_id(customer_name, date))

\* ------------------------------------------------------- elapsed hours
\* JULIANDAY(ts) is the double nearest to the day number; near 2.46e6 a
\* double has steps of 2^-31 days, so a difference of two of them, times 24,
\* is a multiple of 3 * 2^-28 hours. For a timestamp on a whole hour the
\* rounding error of JULIANDAY(ts) * 24 is 0, -1 or +1 times 2^-28 hours, by
\* the hour modulo 3 (a third of an hour is 2^31 / 72 steps, not an integer).
JulianUlp(ts) == CASE ts % 3 = 0 -> 0 [] ts % 3 = 1 -> -1 [] OTHER -> 1

\* (JULIANDAY(:end_time) - JULIANDAY(start_time)) * 24
ElapsedHours(start_time, end_time) ==
    IF end_time = NULL \/ start_time = NULL THEN <<>>
    ELSE <<end_time - start_time, JulianUlp(end_time) - JulianUlp(start_time)>>

\* a REAL times a number; NULL stays NULL
Times(x, k) == IF x = <<>> THEN <<>> ELSE <<x[1] * k, x[2] * k>>

\* ------------------------------------------------------------- customers
\* insert_customer, first statement: update customers set is_current = 0,
\* valid_to = start_date - 1 day where customer_name = ? AND is_current = 1
ic_update_keep(tbl, customer_name, start_date) ==
    [i \in Ids(tbl) |->
        IF tbl[i].customer_name = customer_name /\ tbl[i].is_current
        THEN [tbl[i] EXCEPT !.valid_to = start_date - 1]
        ELSE tbl[i]]

ic_update(tbl, customer_name, start_date) ==
    [i \in Ids(tbl) |->
        IF tbl[i].customer_name = customer_name /\ tbl[i].is_current
        THEN [tbl[i] EXCEPT !.is_current = FALSE, !.valid_to = start_date - 1]
        ELSE tbl[i]]

\* insert_customer, second statement: insert into customers (.., valid_to =
\* None, is_current = 1)
ic_insert(tbl, customer_name, wage, valid_from) ==
    Append(tbl, [customer_name |-> customer_name, wage |-> wage,
                 valid_from |-> valid_from, valid_to |-> NULL,
                 is_current |-> TRUE])

\* insert_customer(customer_name, start_date, wage, valid_from); no commit
insert_customer(tbl, customer_name, start_date, wage, valid_from) ==
    ic_insert(ic_update(tbl, customer_name, start_date),
              customer_name, wage, valid_from)

RowsNamed(tbl, customer_name) ==
    {i \in Ids(tbl) : tbl[i].customer_name = customer_name}

\* the branch __add_customer takes
add_customer_branch(customer_name) ==
    LET rows == RowsNamed(customers, customer_name)
    IN IF rows = {} THEN "new"
       ELSE IF \E i \in rows : customers[i].is_current THEN "update"
       ELSE "reactivate"

\* update customers set is_current = 1 where customer_id = <first row>
reactivate_customer(tbl, customer_name) ==
    [tbl EXCEPT ![Min(RowsNamed(tbl, customer_name))].is_current = TRUE]

\* a disable that also ends the validity of the rows
disable_customer_close(tbl, customer_name) ==
    [i \in Ids(tbl) |->
        IF tbl[i].customer_name = customer_name
        THEN [tbl[i] EXCEPT !.is_current = FALSE, !.valid_to = 0] ELSE tbl[i]]

\* update customers set is_current = 0 where customer_name = ..
disable_customer(tbl, customer_name) ==
    [i \in Ids(tbl) |->
        IF tbl[i].customer_name = customer_name
        THEN [tbl[i] EXCEPT !.is_current = FALSE] ELSE tbl[i]]

\* -------------------------------------------------------------- projects
\* __get_active_projects: projects p left join customers c on c.customer_id
\* = p.customer_id where p.is_current = 1 and c.is_current = 1
get_active_projects ==
    {i \in Ids(projects) :
        /\ projects[i].is_current
        /\ projects[i].customer_id \in Ids(customers)
        /\ customers[projects[i].customer_id].is_current}

\* the (customer_name, project_name) of the project buttons
Buttons ==
    {<<customers[projects[i].customer_id].customer_name, projects[i].project_name>> :
        i \in get_active_projects}

\* __add_customer_project(data): nothing without the customer or when the
\* project is active, the reactivation of a disabled project of the customer's
\* first row, else insert_project under the version valid today
add_customer_project(p_name, c_name, today) ==
    LET rows == RowsNamed(customers, c_name)
        same == {i \in Ids(projects) :
                    /\ projects[i].project_name = p_name
                    /\ projects[i].customer_id = Min(rows)}
    IN IF rows = {} THEN projects
       ELSE IF \E i \in same : projects[i].is_current THEN projects
       ELSE IF same # {} THEN [projects EXCEPT ![Min(same)].is_current = TRUE]
       ELSE Append(projects, [customer_id |-> get_customer_id(c_name, today),
                              project_name |-> p_name, is_current |-> TRUE])

\* __add_customer(data) on the table
add_customer(c_name, s_date, wage) ==
    IF add_customer_branch(c_name) = "reactivate"
    THEN reactivate_customer(customers, c_name)
    ELSE insert_customer(customers, c_name, s_date, wage, s_date)

\* ----------------------------------------------------------------- bonus
\* insert_bonus(bonus_percent, start_date, end_date): the statement run when
\* no end_date is given
ib_update_none(tbl, start_date) == tbl

ib_update(tbl, start_date) ==
    [i \in Ids(tbl) |->
        IF tbl[i].end_date = NULL
        THEN [tbl[i] EXCEPT !.end_date = start_date - 1] ELSE tbl[i]]

ib_insert(tbl, bonus_percent, start_date, end_date) ==
    Append(tbl, [bonus_percent |-> bonus_percent, start_date |-> start_date,
                 end_date |-> end_date])

insert_bonus(tbl, bonus_percent, start_date, end_date) ==
    ib_insert(IF end_date = NULL THEN ib_update(tbl, start_date) ELSE tbl,
              bonus_percent, start_date, end_date)

\* ------------------------------------------------------------------ time
\* rows of the pair started on the given date
rows_today(customer_id, project_id, today) ==
    {i \in Ids(time) :
        /\ time[i].customer_id = customer_id
        /\ time[i].project_id = project_id
        /\ DateOf(time[i].start_time) = today}

\* what insert_time_row does: "none" (early return), "open" or "close"
toggle_kind(customer_name, project_name, ts) ==
    LET today == DateOf(ts)
        customer_id == get_customer_id(customer_name, today)
        project_id == get_project_id(project_name)
        rows == rows_today(customer_id, project_id, today)
    IN IF customer_id = -1 \/ project_id = -1 THEN "none"
       ELSE IF today \notin dates THEN "error"
       ELSE IF rows = {} \/ \A i \in rows : time[i].end_time # NULL THEN "open"
       ELSE "close"

\* close_row with the wage left out of the cost
close_row_unpriced(row, ts, cost, bonus_percent) ==
    LET total == ElapsedHours(row.start_time, ts)
    IN [row EXCEPT !.end_time = ts,
                   !.total_time = total,
                   !.cost = total,
                   !.bonus = bonus_percent,
                   !.wage = Times(total, bonus_percent)]

\* the UPDATE of insert_time_row on the row time_id
close_row(row, ts, cost, bonus_percent) ==
    LET total == ElapsedHours(row.start_time, ts)
    IN [row EXCEPT !.end_time = ts,
                   !.total_time = total,
                   !.cost = Times(total, cost),
                   !.bonus = bonus_percent,
                   !.wage = Times(Times(total, cost), bonus_percent)]

\* insert_time_row resuming the latest closed row instead of adding a row
insert_time_row_resume(customer_name, project_name, ts) ==
    LET today == DateOf(ts)
        customer_id == get_customer_id(customer_name, today)
        project_id == get_project_id(project_name)
        rows == rows_today(customer_id, project_id, today)
        kind == toggle_kind(customer_name, project_name, ts)
    IN IF kind = "open" /\ rows # {}
       THEN [time EXCEPT ![Max(rows)].end_time = NULL]
       ELSE IF kind = "open"
       THEN Append(time, [customer_id |-> customer_id,
                          customer_name |-> customer_name,
                          project_id |-> project_id,
                          project_name |-> project_name,
                          start_time |-> ts, end_time |-> NULL,
                          date_key |-> today, total_time |-> <<>>,
                          cost |-> <<>>, bonus |-> NULL, wage |-> <<>>])
       ELSE IF kind = "close"
       THEN LET last_row_id == Max(rows)
            IN [time EXCEPT ![last_row_id] =
                   close_row(time[last_row_id], ts, cost_rate(customer_id),
                             bonus_rate(today))]
       ELSE time

\* insert_time_row(customer_name, project_name) at the time ts
insert_time_row(customer_name, project_name, ts) ==
    LET today == DateOf(ts)
        customer_id == get_customer_id(customer_name, today)
        project_id == get_project_id(project_name)
        rows == rows_today(customer_id, project_id, today)
        kind == toggle_kind(customer_name, project_name, ts)
    IN IF kind = "open"
       THEN Append(time, [customer_id |-> customer_id,
                          customer_name |-> customer_name,
                          project_id |-> project_id,
                          project_name |-> project_name,
                          start_time |-> ts, end_time |-> NULL,
                          date_key |-> today, total_time |-> <<>>,
                          cost |-> <<>>, bonus |-> NULL, wage |-> <<>>])
       ELSE IF kind = "close"
       THEN LET last_row_id == Max(rows)
            IN [time EXCEPT ![last_row_id] =
                   close_row(time[last_row_id], ts, cost_rate(customer_id),
                             bonus_rate(today))]
       ELSE time

\* __update_value_id taking the bonus of the current date
update_value_id_today(val) ==
    IF val \notin Ids(time) THEN time
    ELSE LET row == time[val]
             total == ElapsedHours(row.start_time, row.end_time)
             cost == cost_rate(row.customer_id)
             pct == bonus_rate(DateOf(now))
         IN [time EXCEPT ![val] =
                [row EXCEPT !.total_time = total,
                            !.cost = Times(total, cost),
                            !.bonus = pct,
                            !.wage = Times(Times(total, cost), pct)]]

\* __update_value_id(val): recompute the derived columns of one row
update_value_id(val) ==
    IF val \notin Ids(time) THEN time
    ELSE LET row == time[val]
             total == ElapsedHours(row.start_time, row.end_time)
             cost == cost_rate(row.customer_id)
             pct == bonus_rate(DateOf(row.start_time))
         IN [time EXCEPT ![val] =
                [row EXCEPT !.total_time = total,
                            !.cost = Times(total, cost),
                            !.bonus = pct,
                            !.wage = Times(Times(total, cost), pct)]]

\* ------------------------------------------------------ dates as text
\* the calendar date of a day of the horizon: day 1 is 2025-12-31
Calendar(d) ==
    IF d <= 1 THEN [year |-> 2025, month |-> 12, day |-> 30 + d]
    ELSE [year |-> 2026, month |-> 1, day |-> d - 1]

DigitChar == <<"0", "1", "2", "3", "4", "5", "6", "7", "8", "9">>

\* str(n) for n >= 0
RECURSIVE Decimal(_)
Decimal(n) ==
    IF n < 10 THEN <<DigitChar[n + 1]>>
    ELSE Decimal(n \div 10) \o <<DigitChar[(n % 10) + 1]>>

RECURSIVE ZeroPad(_, _)
ZeroPad(s, width) == IF Len(s) >= width THEN s ELSE ZeroPad(<<"0">> \o s, width)

\* f"{n:0{width}d}" for n >= 0
Format(n, width) == ZeroPad(Decimal(n), width)

\* dt.strftime("%Y-%m-%d")
strftime(dt) ==
    Format(dt.year, 4) \o <<"-">> \o Format(dt.month, 2) \o <<"-">> \o Format(dt.day, 2)

\* __get_current_date_struct() for the date dt
get_current_date_struct(dt) ==
    [month_day |-> dt.day, month |-> dt.month - 1, year |-> dt.year - 1900]

\* __format_date_struct(input_struct)
format_date_struct(input_struct) ==
    Format(input_struct.year + 1900, 4) \o <<"-">>
        \o Format(input_struct.month + 1, 2) \o <<"-">>
        \o Format(input_struct.month_day, 2)

\* on_date_selected with the month taken as it comes
on_date_selected_raw(struct) ==
    Decimal(struct.year + 1900) \o <<"-">>
        \o Format(struct.month, 2) \o <<"-">>
        \o Format(struct.month_day, 2)

\* on_date_selected: the text it stores in SELECTED_DATE
on_date_selected(struct) ==
    Decimal(struct.year + 1900) \o <<"-">>
        \o Format(struct.month + 1, 2) \o <<"-">>
        \o Format(struct.month_day, 2)

\* int(ch) of a decimal digit
DigitValue(ch) == CHOOSE n \in 0..9 : DigitChar[n + 1] = ch

\* ch.isdigit()
IsDigit(ch) == \E n \in 1..10 : DigitChar[n] = ch

\* int(s) for a text of digits
RECURSIVE Number(_)
Number(s) ==
    IF s = <<>> THEN 0
    ELSE 10 * Number(SubSeq(s, 1, Len(s) - 1)) + DigitValue(s[Len(s)])

\* calendar.monthrange(year, month)[1]
days_in_month(year, month) ==
    IF month = 2
    THEN IF (year % 4 = 0 /\ year % 100 # 0) \/ year % 400 = 0 THEN 29 ELSE 28
    ELSE IF month \in {4, 6, 9, 11} THEN 30 ELSE 31

\* __is_valid_date: datetime.strptime(date_str, "%Y-%m-%d") does not raise.
\* %Y takes four digits, %m takes 1..12 and %d takes 1..31 with or without
\* a leading zero (%d also with a leading blank); the day must exist
is_valid_date(date_str) ==
    LET dashes == {i \in DOMAIN date_str : date_str[i] = "-"}
        Y == SubSeq(date_str, 1, Min(dashes) - 1)
        m == SubSeq(date_str, Min(dashes) + 1, Max(dashes) - 1)
        d == SubSeq(date_str, Max(dashes) + 1, Len(date_str))
        digits(s) == \A i \in DOMAIN s : IsDigit(s[i])
        day == IF d[1] = " " THEN Tail(d) ELSE d
    IN /\ Cardinality(dashes) = 2
       /\ Len(Y) = 4 /\ digits(Y) /\ Number(Y) >= 1
       /\ Len(m) \in {1, 2} /\ digits(m) /\ Number(m) \in 1..12
       /\ Len(d) \in {1, 2} /\ digits(day)
       /\ d[1] = " " => Len(d) = 2
       /\ Number(day) \in 1..days_in_month(Number(Y), Number(m))

\* ------------------------------------------------------------ the program
Snapshot(c, p, b, t) == [customers |-> c, projects |-> p, bonus |-> b, time |-> t]

Pairs == CustomerNames \X ProjectNames

\* the threads that submit tasks: the callback thread and the refresh thread
Callers == {"ui", "timer"}

\* queue_task called without a response queue
NoResponse == "none"

\* a thread that is not inside run_update_ui_task
RefreshIdle == [at |-> "idle", sel |-> <<>>]

\* the callback thread is not inside move_header_up or move_header_down
NoMove == [at |-> "idle"]

\* the (customer_id, project_id) of the project rows of the window
SummaryKeys == <<<<1, 1>>, <<1, 2>>, <<2, 3>>>>

\* the text widgets: time_{customer_id}_{project_id} and total_{customer_id}
Tags ==
    {<<"time", SummaryKeys[k][1], SummaryKeys[k][2]>> : k \in DOMAIN SummaryKeys}
        \cup {<<"total", SummaryKeys[k][1]>> : k \in DOMAIN SummaryKeys}

\* dpg.add_text(""): a text widget nothing was written to
NoText == <<>>

\* no refresh has ended yet
NoSummary == [df |-> <<>>, sel_type |-> "none"]

\* no settings callback has run
NoForm == [handler |-> "none"]

\* the message popup is hidden
NoMessage == ""

\* save_popup_data has not run
NoSave == [status |-> "none"]

\* the query editor shows no result table
NoTable == <<>>

\* no stop popup is on the window
NoPopup == <<>>

\* no handler is between two of its statements
Idle == [op |-> "idle", args |-> <<>>]

Init ==
    /\ customers = <<>>
    /\ projects = <<>>
    /\ bonus = <<>>
    /\ time = <<>>
    /\ now = HoursPerDay
    /\ committed = Snapshot(<<>>, <<>>, <<>>, <<>>)
    /\ pc = Idle
    /\ toggles = [pr \in Pairs |-> <<>>]
    /\ queue = <<>>
    /\ submitted = 0
    /\ executed = <<>>
    /\ channels = [c \in Callers |-> <<>>]
    /\ waiting = [c \in Callers |-> 0]
    /\ SELECTED_DATE = strftime(Calendar(DateOf(HoursPerDay)))
    /\ app_data = get_current_date_struct(Calendar(DateOf(HoursPerDay)))
    /\ CURRENT_DATE = DateOf(HoursPerDay)
    /\ TIME_ID = 0
    /\ TYPE_ID = 0
    /\ refresh = [c \in Callers |-> RefreshIdle]
    /\ displayed = <<>>
    /\ checked = {}
    /\ popup = NoPopup
    /\ sort_order = <<>>
    /\ move = NoMove
    /\ do_con = <<>>
    /\ message = NoMessage
    /\ saved = NoSave
    /\ table = NoTable
    /\ raised = {}
    /\ editor = "idle"
    /\ form = NoForm
    /\ texts = [tag \in Tags |-> NoText]
    /\ summary = NoSummary

\* __add_customer(data): a new customer, a new wage version, or (all rows
\* disabled) the reactivation of the first row
AddCustomer(c_name, s_date, wage) ==
    /\ pc.op = "idle"
    /\ add_customer_branch(c_name) # "reactivate" => Len(customers) < MaxCustomers
    /\ customers' = add_customer(c_name, s_date, wage)
    /\ committed' = IF add_customer_branch(c_name) = "reactivate"
                    THEN Snapshot(customers', projects, bonus, time)
                    ELSE committed
    /\ UNCHANGED <<projects, bonus, time, now, pc, toggles, queue, dispatch, ui, widgets, order, reports,
                   forms, totals>>

\* __disable_customer(c_name), c_name picked among the customers of the active
\* projects (__remove_customer_popup)
DisableCustomer(c_name) ==
    /\ pc.op = "idle"
    /\ \E pr \in Buttons : pr[1] = c_name
    /\ customers' = disable_customer(customers, c_name)
    /\ committed' = Snapshot(customers', projects, bonus, time)
    /\ UNCHANGED <<projects, bonus, time, now, pc, toggles, queue, dispatch, ui, widgets, order, reports,
                   forms, totals>>

\* __add_customer_project(data): reactivates a disabled project of the
\* customer's first row, else insert_project under the version valid today
AddProjectWithin(p_name, c_name, max) ==
    LET rows == RowsNamed(customers, c_name)
        customer_id == Min(rows)
        same == {i \in Ids(projects) :
                    /\ projects[i].project_name = p_name
                    /\ projects[i].customer_id = customer_id}
    IN /\ pc.op = "idle"
       /\ rows # {}
       /\ ~ \E i \in same : projects[i].is_current
       /\ same = {} => Len(projects) < max
       /\ projects' = add_customer_project(p_name, c_name, DateOf(now))
       /\ committed' = IF same # {} THEN committed
                       ELSE Snapshot(customers, projects', bonus, time)
       /\ UNCHANGED <<customers, bonus, time, now, pc, toggles, queue, dispatch, ui,
                   widgets, order, reports, forms, totals>>

AddProject(p_name, c_name) == AddProjectWithin(p_name, c_name, MaxProjects)

\* __disable_customer_project(p_id), p_id picked among the active projects
DisableProject(p_id) ==
    /\ pc.op = "idle"
    /\ p_id \in get_active_projects
    /\ projects' = [projects EXCEPT ![p_id].is_current = FALSE]
    /\ committed' = Snapshot(customers, projects', bonus, time)
    /\ UNCHANGED <<customers, bonus, time, now, pc, toggles, queue, dispatch, ui,
                   widgets, order, reports, forms, totals>>

\* __add_bonus(data): insert_bonus(amount, date) with no end date
AddBonus(amount, date) ==
    /\ pc.op = "idle"
    /\ Len(bonus) < MaxBonus
    /\ bonus' = insert_bonus(bonus, amount, date, NULL)
    /\ committed' = Snapshot(customers, projects, bonus', time)
    /\ UNCHANGED <<customers, projects, time, now, pc, toggles, queue, dispatch, ui,
                   widgets, order, reports, forms, totals>>

\* insert_bonus(bonus_percent, start_date, end_date) called with an end date
InsertBonus(bonus_percent, start_date, end_date) ==
    /\ pc.op = "idle"
    /\ Len(bonus) < MaxBonus
    /\ end_date # NULL
    /\ bonus' = insert_bonus(bonus, bonus_percent, start_date, end_date)
    /\ committed' = Snapshot(customers, projects, bonus', time)
    /\ UNCHANGED <<customers, projects, time, now, pc, toggles, queue, dispatch, ui,
                   widgets, order, reports, forms, totals>>

\* __validate_db: count(*) from bonus where current_timestamp between
\* start_date and coalesce(end_date, '2999-12-31'). A timestamp compares as a
\* string with a date: it is above the date of its own day, so the upper
\* bound is strict.
validate_count ==
    Cardinality({i \in Ids(bonus) :
        /\ bonus[i].start_date <= DateOf(now)
        /\ DateOf(now) < (IF bonus[i].end_date = NULL THEN FarFutureValidate
                          ELSE bonus[i].end_date)})

\* __update_project(c_name, p_name, button): a click on a project button
Toggle(c_name, p_name) ==
    LET kind == toggle_kind(c_name, p_name, now)
    IN /\ pc.op = "idle"
       /\ <<c_name, p_name>> \in Buttons
       /\ Len(toggles[<<c_name, p_name>>]) < MaxToggles
       /\ kind = "open" => Len(time) < MaxTime
       /\ time' = insert_time_row(c_name, p_name, now)
       /\ committed' = IF kind \in {"open", "close"}
                       THEN Snapshot(customers, projects, bonus, time')
                       ELSE committed
       /\ toggles' = [toggles EXCEPT ![<<c_name, p_name>>] = Append(@, kind)]
       /\ UNCHANGED <<customers, projects, bonus, now, pc, queue, dispatch, ui, widgets, order, reports,
                      forms, totals>>

\* __update_value_popup: recalculate the values of one time_id
UpdateValueId(val) ==
    /\ pc.op = "idle"
    /\ val \in Ids(time)
    /\ time' = update_value_id(val)
    /\ committed' = Snapshot(customers, projects, bonus, time')
    /\ UNCHANGED <<customers, projects, bonus, now, pc, toggles, queue, dispatch, ui,
                   widgets, order, reports, forms, totals>>

\* the wall clock advances within the day
Tick(d) ==
    /\ (now % HoursPerDay) + d <= MaxHour
    /\ now' = now + d
    /\ UNCHANGED <<customers, projects, bonus, time, committed, pc, toggles, queue, dispatch, ui,
                   widgets, order, reports, forms, totals>>

\* the wall clock passes midnight
Midnight ==
    /\ DateOf(now) < MaxDate
    /\ now' = HoursPerDay * (DateOf(now) + 1)
    /\ UNCHANGED <<customers, projects, bonus, time, committed, pc, toggles, queue, dispatch, ui,
                   widgets, order, reports, forms, totals>>

Next ==
    \/ \E c \in CustomerNames, d \in Dates, w \in Wages : AddCustomer(c, d, w)
    \/ \E c \in CustomerNames : DisableCustomer(c)
    \/ \E p \in ProjectNames, c \in CustomerNames : AddProject(p, c)
    \/ \E i \in 1..MaxProjects : DisableProject(i)
    \/ \E a \in BonusPercents, d \in Dates : AddBonus(a, d)
    \/ \E a \in BonusPercents, d, e \in BonusDates : InsertBonus(a, d, e)
    \/ \E c \in CustomerNames, p \in ProjectNames : Toggle(c, p)
    \/ \E i \in 1..MaxTime : UpdateValueId(i)
    \/ \E d \in Steps : Tick(d)
    \/ Midnight

Spec == Init /\ [][Next]_vars

\* the customer and project forms alone
NextCustomers ==
    \/ \E c \in CustomerNames, d \in Dates, w \in Wages : AddCustomer(c, d, w)
    \/ \E c \in CustomerNames : DisableCustomer(c)
    \/ \E p \in ProjectNames, c \in CustomerNames : AddProject(p, c)
    \/ \E i \in 1..MaxProjects : DisableProject(i)
    \/ Midnight

SpecCustomers == Init /\ [][NextCustomers]_vars

\* the bonus form alone
NextBonus ==
    \/ \E a \in BonusPercents, d \in BonusDates : AddBonus(a, d)
    \/ \E a \in BonusPercents, d, e \in BonusDates : InsertBonus(a, d, e)
    \/ Midnight

SpecBonus == Init /\ [][NextBonus]_vars

\* the two rate tables
NextRates ==
    \/ \E c \in CustomerNames, d \in Dates, w \in Wages : AddCustomer(c, d, w)
    \/ \E a \in BonusPercents, d \in Dates : AddBonus(a, d)

SpecRates == Init /\ [][NextRates]_vars

\* the timers of one customer, with its rates changing under them
NextLedger ==
    \/ \E d \in Dates, w \in Wages : AddCustomer("A", d, w)
    \/ \E p \in ProjectNames : AddProject(p, "A")
    \/ \E a \in BonusPercents, d \in Dates : AddBonus(a, d)
    \/ \E p \in ProjectNames : Toggle("A", p)
    \/ \E i \in 1..MaxTime : UpdateValueId(i)
    \/ \E d \in Steps : Tick(d)
    \/ Midnight

SpecLedger == Init /\ [][NextLedger]_vars

\* ------------------------------------------- insert_customer by statement
\* insert_customer committing after its UPDATE, as insert_bonus does
InsertCustomerUpdate_commit(c_name, s_date, wage) ==
    /\ pc = Idle
    /\ add_customer_branch(c_name) # "reactivate"
    /\ Len(customers) < MaxCustomers
    /\ customers' = ic_update(customers, c_name, s_date)
    /\ pc' = [op |-> "insert_customer", args |-> <<c_name, wage, s_date>>]
    /\ committed' = Snapshot(customers', projects, bonus, time)
    /\ UNCHANGED <<projects, bonus, time, now, toggles, queue, dispatch, ui, widgets, order, reports,
                   forms, totals>>

\* insert_customer, the UPDATE that closes the current version
InsertCustomerUpdate(c_name, s_date, wage) ==
    /\ pc = Idle
    /\ add_customer_branch(c_name) # "reactivate"
    /\ Len(customers) < MaxCustomers
    /\ customers' = ic_update(customers, c_name, s_date)
    /\ pc' = [op |-> "insert_customer", args |-> <<c_name, wage, s_date>>]
    /\ UNCHANGED <<projects, bonus, time, now, committed, toggles, queue, dispatch, ui, widgets, order, reports,
                   forms, totals>>

\* insert_customer, the INSERT of the new version; conn.commit() is
\* commented out
InsertCustomerInsert ==
    /\ pc.op = "insert_customer"
    /\ customers' = ic_insert(customers, pc.args[1], pc.args[2], pc.args[3])
    /\ pc' = Idle
    /\ UNCHANGED <<projects, bonus, time, now, committed, toggles, queue, dispatch, ui, widgets, order, reports,
                   forms, totals>>

\* the process dies; the next start reads what the file holds
Crash ==
    /\ customers' = committed.customers
    /\ projects' = committed.projects
    /\ bonus' = committed.bonus
    /\ time' = committed.time
    /\ pc' = Idle
    /\ queue' = <<>>
    /\ UNCHANGED <<now, committed, toggles, dispatch, ui, widgets, order, reports,
                   forms, totals>>

NextTxn ==
    \/ \E c \in CustomerNames, d \in Dates, w \in Wages : InsertCustomerUpdate(c, d, w)
    \/ InsertCustomerInsert
    \/ \E p \in ProjectNames, c \in CustomerNames : AddProject(p, c)
    \/ \E a \in BonusPercents, d \in Dates : AddBonus(a, d)
    \/ Crash

SpecTxn == Init /\ [][NextTxn]_vars

\* -------------------------------------------------------- the dispatcher
\* queue_task(op, args, response): the task joins the FIFO with the caller's
\* response queue, if any; id numbers the submissions, racing records that a
\* task with the same operation and arguments was still waiting in the FIFO,
\* expects the customers whose insert_customer was waiting in it
queue_task_drop(q, op, args, response) == q

queue_task_front(q, op, args, response) ==
    <<[op |-> op, args |-> args, id |-> submitted + 1,
       response |-> response,
       expects |-> {q[i].args[1] : i \in {j \in Ids(q) : q[j].op = "insert_customer"}},
       racing |-> \E i \in Ids(q) : q[i].op = op /\ q[i].args = args]>> \o q

\* a queue_task that hands the task the response queue of the other caller
queue_task_swap(q, op, args, response) ==
    Append(q, [op |-> op, args |-> args, id |-> submitted + 1,
               response |-> IF response = "ui" THEN "timer"
                            ELSE IF response = "timer" THEN "ui" ELSE response,
               expects |-> {q[i].args[1] :
                               i \in {j \in Ids(q) : q[j].op = "insert_customer"}},
               racing |-> \E i \in Ids(q) : q[i].op = op /\ q[i].args = args])

queue_task(q, op, args, response) ==
    Append(q, [op |-> op, args |-> args, id |-> submitted + 1,
               response |-> response,
               expects |-> {q[i].args[1] :
                               i \in {j \in Ids(q) : q[j].op = "insert_customer"}},
               racing |-> \E i \in Ids(q) : q[i].op = op /\ q[i].args = args])

Pending(op) == {i \in Ids(queue) : queue[i].op = op}

\* add_customer_data: the customer form submits insert_customer
SubmitCustomer(c_name, s_date, wage) ==
    /\ Len(queue) < MaxQueue
    /\ submitted < MaxSubmitted
    /\ Len(customers) + Cardinality(Pending("insert_customer")) < MaxCustomers
    /\ queue' = queue_task(queue, "insert_customer", <<c_name, s_date, wage>>,
                         NoResponse)
    /\ submitted' = submitted + 1
    /\ UNCHANGED <<customers, projects, bonus, time, now, committed, pc, toggles,
                   executed, channels, waiting, ui, widgets, order, reports,
                   forms, totals>>

\* add_project_data: the project form submits insert_project
SubmitProject(p_name, c_name) ==
    /\ Len(queue) < MaxQueue
    /\ submitted < MaxSubmitted
    /\ Len(projects) + Cardinality(Pending("insert_project")) < MaxProjects
    /\ queue' = queue_task(queue, "insert_project", <<p_name, c_name>>,
                         NoResponse)
    /\ submitted' = submitted + 1
    /\ UNCHANGED <<customers, projects, bonus, time, now, committed, pc, toggles,
                   executed, channels, waiting, ui, widgets, order, reports,
                   forms, totals>>

\* a click that runs insert_time_row in the caller's thread
ClickProject_direct(c_name, p_name) == Toggle(c_name, p_name)

\* project_button_callback: a click on a project button hands
\* insert_time_row to the dispatcher
ClickProject(c_name, p_name) ==
    /\ <<c_name, p_name>> \in Buttons
    /\ Len(queue) < MaxQueue
    /\ submitted < MaxSubmitted
    /\ Len(time) + Cardinality(Pending("insert_time_row")) < MaxTime
    /\ Len(toggles[<<c_name, p_name>>])
          + Cardinality(Pending("insert_time_row")) < MaxToggles
    /\ queue' = queue_task(queue, "insert_time_row", <<c_name, p_name>>,
                         NoResponse)
    /\ submitted' = submitted + 1
    /\ UNCHANGED <<customers, projects, bonus, time, now, committed, pc, toggles,
                   executed, channels, waiting, ui, widgets, order, reports,
                   forms, totals>>

\* queue.Queue.get(): the position of the task the worker takes
get_last(q) == Len(q)

get(q) == 1

\* where the worker stands after a task: back at the head of its loop, also
\* when the task failed
after_task_raise(task) ==
    IF task.op = "run_query" THEN [op |-> "raised", args |-> <<>>] ELSE Idle

after_task(task) == Idle

\* what a task puts on its response queue: the value of a query, or the
\* error the worker caught
Response(task) ==
    IF task.op = "run_query" /\ task.args = <<"malformed">>
    THEN [id |-> task.id, error |-> TRUE, expects |-> task.expects, value |-> {},
          sort_order |-> <<>>]
    ELSE [id |-> task.id, error |-> FALSE, expects |-> task.expects,
          value |-> {customers[i].customer_name : i \in Ids(customers)},
          sort_order |-> IF task.op \in {"run_query", "get_customer_ui_list"}
                         THEN sort_order ELSE <<>>]

\* process_queue: the worker takes the oldest task, runs it to its end and
\* puts the outcome on the task's response queue; a task that fails changes
\* nothing and the worker goes on
ProcessQueue ==
    /\ queue # <<>>
    /\ pc = Idle
    /\ queue' = [i \in 1..(Len(queue) - 1) |->
                    IF i < get(queue) THEN queue[i] ELSE queue[i + 1]]
    /\ LET task == queue[get(queue)]
           a == task.args
       IN /\ CASE task.op = "insert_customer" ->
                    /\ customers' = add_customer(a[1], a[2], a[3])
                    /\ committed' = IF add_customer_branch(a[1]) = "reactivate"
                                    THEN Snapshot(customers', projects, bonus, time)
                                    ELSE committed
                    /\ UNCHANGED <<projects, time, toggles, ui, widgets, order, reports, forms, totals>>
               [] task.op = "insert_project" ->
                    /\ projects' = add_customer_project(a[1], a[2], DateOf(now))
                    /\ committed' = IF Len(projects') > Len(projects)
                                    THEN Snapshot(customers, projects', bonus, time)
                                    ELSE committed
                    /\ UNCHANGED <<customers, time, toggles, ui, widgets, order, reports, forms, totals>>
               [] task.op = "insert_time_row" ->
                    /\ time' = insert_time_row(a[1], a[2], now)
                    /\ committed' = IF toggle_kind(a[1], a[2], now) \in {"open", "close"}
                                    THEN Snapshot(customers, projects, bonus, time')
                                    ELSE committed
                    /\ toggles' = [toggles EXCEPT ![<<a[1], a[2]>>] =
                                      Append(@, toggle_kind(a[1], a[2], now))]
                    /\ UNCHANGED <<customers, projects, ui, widgets, order, reports, forms, totals>>
               [] task.op = "run_query" /\ a[1] = "update" ->
                    /\ sort_order' = [i \in DOMAIN sort_order |->
                                         IF i \in a[2] THEN a[3] ELSE sort_order[i]]
                    /\ UNCHANGED <<customers, projects, time, committed, toggles,
                                   ui, widgets, move, reports, forms, totals>>
               [] OTHER ->
                    UNCHANGED <<customers, projects, time, committed, toggles, ui,
                                widgets, order, reports, forms, totals>>
          /\ executed' = Append(executed, task.id)
          /\ channels' = IF task.response \in Callers
                         THEN [channels EXCEPT ![task.response] =
                                  Append(@, Response(task))]
                         ELSE channels
    /\ pc' = after_task(queue[get(queue)])
    /\ UNCHANGED <<bonus, now, submitted, waiting, ui, widgets, move, reports, forms, totals>>

NextDispatch ==
    \/ \E c \in CustomerNames, d \in Dates, w \in Wages : SubmitCustomer(c, d, w)
    \/ \E p \in ProjectNames, c \in CustomerNames : SubmitProject(p, c)
    \/ \E c \in CustomerNames, p \in ProjectNames : ClickProject(c, p)
    \/ ProcessQueue
    \/ Midnight

SpecDispatch == Init /\ [][NextDispatch]_vars

\* --------------------------------------------- insert_bonus by statement
\* insert_bonus with no end date: the UPDATE that closes the open-ended
\* rows, followed by conn.commit()
InsertBonusUpdate(amount, date) ==
    /\ pc = Idle
    /\ Len(bonus) < MaxBonus
    /\ bonus' = ib_update(bonus, date)
    /\ committed' = Snapshot(customers, projects, bonus', time)
    /\ pc' = [op |-> "insert_bonus", args |-> <<amount, date>>]
    /\ UNCHANGED <<customers, projects, time, now, toggles, queue, dispatch, ui,
                   widgets, order, reports, forms, totals>>

\* insert_bonus, the INSERT of the new row, followed by conn.commit()
InsertBonusInsert ==
    /\ pc.op = "insert_bonus"
    /\ bonus' = ib_insert(bonus, pc.args[1], pc.args[2], NULL)
    /\ committed' = Snapshot(customers, projects, bonus', time)
    /\ pc' = Idle
    /\ UNCHANGED <<customers, projects, time, now, toggles, queue, dispatch, ui,
                   widgets, order, reports, forms, totals>>

NextBonusTxn ==
    \/ \E a \in BonusPercents, d \in BonusDates : InsertBonusUpdate(a, d)
    \/ InsertBonusInsert
    \/ Crash
    \/ Midnight

SpecBonusTxn == Init /\ [][NextBonusTxn]_vars

\* customers being disabled and reactivated while their timers run
NextDisable ==
    \/ \E c \in CustomerNames, d \in Dates, w \in Wages : AddCustomer(c, d, w)
    \/ \E c \in CustomerNames : DisableCustomer(c)
    \/ \E p \in ProjectNames, c \in CustomerNames : AddProject(p, c)
    \/ \E c \in CustomerNames, p \in ProjectNames : Toggle(c, p)
    \/ Midnight

SpecDisable == Init /\ [][NextDisable]_vars

\* __update_dropdown, run_update_ui_task: the caller submits a query with a
\* response queue of its own and blocks on r_queue.get()
SubmitRead(caller) ==
    /\ waiting[caller] = 0
    /\ Len(queue) < MaxQueue
    /\ submitted < MaxSubmitted
    /\ queue' = queue_task(queue, "get_customer_names", <<>>, caller)
    /\ waiting' = [waiting EXCEPT ![caller] = submitted + 1]
    /\ submitted' = submitted + 1
    /\ UNCHANGED <<customers, projects, bonus, time, now, committed, pc, toggles,
                   executed, channels, ui, widgets, order, reports, forms, totals>>

\* handle_query_input: the caller submits a query the storage rejects and
\* blocks on r_queue.get()
SubmitQuery(caller) ==
    /\ waiting[caller] = 0
    /\ Len(queue) < MaxQueue
    /\ submitted < MaxSubmitted
    /\ queue' = queue_task(queue, "run_query", <<"malformed">>, caller)
    /\ waiting' = [waiting EXCEPT ![caller] = submitted + 1]
    /\ submitted' = submitted + 1
    /\ UNCHANGED <<customers, projects, bonus, time, now, committed, pc, toggles,
                   executed, channels, ui, widgets, order, reports, forms, totals>>

\* r_queue.get() returns: the blocked caller takes its response
Receive(caller) ==
    /\ waiting[caller] # 0
    /\ channels[caller] # <<>>
    /\ channels' = [channels EXCEPT ![caller] = Tail(@)]
    /\ waiting' = [waiting EXCEPT ![caller] = 0]
    /\ UNCHANGED <<customers, projects, bonus, time, now, committed, pc, toggles,
                   queue, submitted, executed, ui, widgets, order, reports,
                   forms, totals>>

\* the dispatcher between its callers and the storage
NextWorker ==
    \/ \E c \in CustomerNames, d \in Dates, w \in Wages : SubmitCustomer(c, d, w)
    \/ \E caller \in Callers : SubmitRead(caller)
    \/ \E caller \in Callers : SubmitQuery(caller)
    \/ ProcessQueue
    \/ \E caller \in Callers : Receive(caller)

SpecWorker == Init /\ [][NextWorker]_vars

\* the main loop calls process_queue in every frame, and a thread whose
\* response has arrived is scheduled
FairWorker ==
    /\ SpecWorker
    /\ WF_vars(ProcessQueue)
    /\ \A caller \in Callers : WF_vars(Receive(caller))

\* every way to the storage: the callbacks that write, the timer toggles, the
\* refresh thread that reads, and the worker
NextAccess ==
    \/ NextDispatch
    \/ \E caller \in Callers : SubmitRead(caller)
    \/ \E caller \in Callers : Receive(caller)

SpecAccess == Init /\ [][NextAccess]_vars

\* the customer and project forms with room for a second project row
NextProjects ==
    \/ \E c \in CustomerNames, d \in Dates, w \in Wages : AddCustomer(c, d, w)
    \/ \E p \in ProjectNames, c \in CustomerNames :
          AddProjectWithin(p, c, MaxProjectRows)
    \/ \E i \in 1..MaxProjectRows : DisableProject(i)
    \/ Midnight

SpecProjects == Init /\ [][NextProjects]_vars

\* --------------------------------------------------- insert_historic_time
\* the timestamps of the lines of a file in the old format, and the files:
\* one start line followed by one stop line
HistoricTimes == {HoursPerDay * d + h : d \in Dates, h \in {0, MaxHour}}

HistoricFiles ==
    {<<a, b>> : a, b \in HistoricTimes} \ {<<a, b>> \in HistoricTimes \X HistoricTimes : a >= b}

\* insert_historic_time(file_name, customer_name, project_name) is called:
\* the lines that match the pattern are read; pc keeps the lines left, and
\* the time table as it was for the comparison afterwards
InsertHistoricTime(file, c_name, p_name) ==
    /\ pc = Idle
    /\ <<c_name, p_name>> \in Buttons
    /\ Len(time) + Len(file) <= MaxHistoricRows
    /\ pc' = [op |-> "insert_historic_time", args |-> <<c_name, p_name, file, time>>]
    /\ UNCHANGED <<customers, projects, bonus, time, now, committed, toggles,
                   queue, dispatch, ui, widgets, order, reports, forms, totals>>

\* one turn of its loop: insert_time_row(customer_name, project_name, date,
\* time, commit=False) for the next line
HistoricLine ==
    /\ pc.op = "insert_historic_time"
    /\ LET a == pc.args
           rest == Tail(a[3])
       IN /\ time' = insert_time_row(a[1], a[2], Head(a[3]))
          /\ pc' = IF rest = <<>> THEN Idle
                   ELSE [pc EXCEPT !.args = <<a[1], a[2], rest, a[4]>>]
    /\ UNCHANGED <<customers, projects, bonus, now, committed, toggles, queue,
                   dispatch, ui, widgets, order, reports, forms, totals>>

\* the live timers of one customer and the import of old files
NextHistoric ==
    \/ \E d \in Dates, w \in Wages : AddCustomer("A", d, w)
    \/ \E p \in ProjectNames : AddProject(p, "A")
    \/ \E p \in ProjectNames : Toggle("A", p)
    \/ \E f \in HistoricFiles, p \in ProjectNames : InsertHistoricTime(f, "A", p)
    \/ HistoricLine
    \/ \E d \in Steps : Tick(d)
    \/ Midnight

SpecHistoric == Init /\ [][NextHistoric]_vars

\* ------------------------------------------- the ledger of WorkTimer.pyw
\* the time table of TABLE_IDS: wage is the hourly rate of the entry, cost
\* the billed amount, user_bonus the bonus amount
EditProjects == {"p", "q"}
EditTimes == {HoursPerDay * d + h : d \in Dates, h \in {0, MaxHour}}
EditComments == {"c"}
EditGitIds == {7}
EditBonus == {25}
EditWages == {100}

\* a REAL times a column that may be NULL
TimesN(x, k) == IF k = NULL THEN <<>> ELSE Times(x, k)

\* db.insert_time_row(customer_id, project_id, git_id, comment): the toggle of
\* insert_time_row on the columns of TABLE_IDS, the pair given by its ids
db_insert_time_row(customer_id, project_id, ts, git_id, comment) ==
    LET today == DateOf(ts)
        rows == rows_today(customer_id, project_id, today)
    IN IF customer_id \notin Ids(customers) \/ project_id \notin Ids(projects)
       THEN time
       ELSE IF rows = {} \/ \A i \in rows : time[i].end_time # NULL
       THEN Append(time, [customer_id |-> customer_id,
                          customer_name |-> customers[customer_id].customer_name,
                          project_id |-> project_id,
                          project_name |-> projects[project_id].project_name,
                          start_time |-> ts, end_time |-> NULL,
                          date_key |-> today, total_time |-> <<>>,
                          cost |-> <<>>, bonus |-> NULL, wage |-> NULL,
                          comment |-> "", git_id |-> 0, user_bonus |-> <<>>])
       ELSE LET last_row_id == Max(rows)
                row == time[last_row_id]
                total == ElapsedHours(row.start_time, ts)
                rate == cost_rate(customer_id)
                pct == bonus_rate(DateOf(row.start_time))
            IN [time EXCEPT ![last_row_id] =
                   [row EXCEPT !.end_time = ts,
                               !.total_time = total,
                               !.wage = rate,
                               !.bonus = pct,
                               !.cost = Times(total, rate),
                               !.user_bonus = Times(Times(total, rate), pct),
                               !.comment = comment,
                               !.git_id = git_id]]

\* trigger_time_after_update: after update on time, for each row
trigger_time_after_update(new) ==
    LET hours == ElapsedHours(new.start_time, new.end_time)
    IN [new EXCEPT !.total_time = hours,
                   !.cost = TimesN(hours, new.wage),
                   !.user_bonus = IF new.bonus = NULL THEN <<>>
                                  ELSE Times(TimesN(hours, new.wage), new.bonus)]

\* the project names the edit popup offers: the current projects of the
\* entry's customer_id
project_options(customer_id) ==
    {i \in Ids(projects) :
        projects[i].customer_id = customer_id /\ projects[i].is_current}

\* _on_edit_row_ok on the time table: update time set <every editable
\* column> where time_id = key_table, and the trigger that follows it
edit_row(key_table, project_id, start_time, end_time, comment, git_id) ==
    [time EXCEPT ![key_table] =
        trigger_time_after_update(
            [time[key_table] EXCEPT !.project_id = project_id,
                                    !.start_time = start_time,
                                    !.end_time = end_time,
                                    !.comment = comment,
                                    !.git_id = git_id])]

\* a click on a project button, or Save in the stop popup
DbToggle(customer_id, project_id) ==
    /\ pc = Idle
    /\ customer_id \in Ids(customers)
    /\ project_id \in project_options(customer_id)
    /\ Len(time) < MaxEditRows
          \/ \E i \in rows_today(customer_id, project_id, DateOf(now)) :
                time[i].end_time = NULL
    /\ \E git_id \in EditGitIds \cup {0}, comment \in EditComments :
          time' = db_insert_time_row(customer_id, project_id, now, git_id, comment)
    /\ committed' = Snapshot(customers, projects, bonus, time')
    /\ UNCHANGED <<customers, projects, bonus, now, pc, toggles, queue, dispatch, ui,
                   widgets, order, reports, forms, totals>>

\* OK in the edit popup of a row of the time table
EditRow(key_table, project_id, start_time, end_time, comment, git_id) ==
    /\ pc = Idle
    /\ key_table \in Ids(time)
    /\ project_id \in project_options(time[key_table].customer_id)
    /\ time' = edit_row(key_table, project_id, start_time, end_time, comment, git_id)
    /\ committed' = Snapshot(customers, projects, bonus, time')
    /\ UNCHANGED <<customers, projects, bonus, now, pc, toggles, queue, dispatch, ui,
                   widgets, order, reports, forms, totals>>

\* the timers of one customer and the edits of their entries
NextEdit ==
    \/ \E w \in EditWages : AddCustomer("A", 1, w)
    \/ \E p \in EditProjects : AddProjectWithin(p, "A", MaxProjectRows)
    \/ \E a \in EditBonus : AddBonus(a, MaxDate)
    \/ \E c \in 1..MaxCustomers, p \in 1..MaxProjectRows : DbToggle(c, p)
    \/ \E i \in 1..MaxEditRows, p \in 1..MaxProjectRows, s, e \in EditTimes,
          c \in EditComments, g \in EditGitIds : EditRow(i, p, s, e, c, g)
    \/ Midnight

SpecEdit == Init /\ [][NextEdit]_vars

\* --------------------------------------------------------- the refresh
\* what the date picker can hand over
PickerYears == {70, 126, 1099}
PickerMonths == {0, 8, 9, 11}
PickerDays == {1, 9, 10, 31}
Structs ==
    [month_day : PickerDays, month : PickerMonths, year : PickerYears]

TimeSpans == 0..4
DataTypes == {0, 1}

\* the selection a refresh computes the totals for
Selection ==
    [TIME_ID |-> TIME_ID, TYPE_ID |-> TYPE_ID, SELECTED_DATE |-> SELECTED_DATE]

\* run_update_ui_task on the thread c, up to its first wait: __get_user_input
\* asks for the dates table and blocks on the response
run_update_ui_task(c) ==
    /\ refresh[c].at = "idle"
    /\ waiting[c] = 0
    /\ Len(queue) < MaxQueue
    /\ submitted + 2 <= 2 * MaxRefreshes
    /\ queue' = queue_task(queue, "get_df", <<"dates">>, c)
    /\ waiting' = [waiting EXCEPT ![c] = submitted + 1]
    /\ submitted' = submitted + 1
    /\ refresh' = [refresh EXCEPT ![c] = [at |-> "dates", sel |-> <<>>]]
    /\ UNCHANGED <<customers, projects, bonus, time, now, committed, pc, toggles,
                   executed, channels, displayed, widgets, order, reports,
                   forms, totals>>

\* the dates arrive: __get_user_input reads the globals, run_update_ui_task
\* asks for get_customer_ui_list and blocks on the response. The dates are
\* used for All-Time only: dates["date"] raises when the worker answered
\* with the exception it caught
RefreshInput(c) ==
    /\ refresh[c].at = "dates"
    /\ channels[c] # <<>>
    /\ channels' = [channels EXCEPT ![c] = Tail(@)]
    /\ IF Head(channels[c]).error /\ TIME_ID = 4
       THEN /\ raised' = raised \cup {c}
            /\ waiting' = [waiting EXCEPT ![c] = 0]
            /\ refresh' = [refresh EXCEPT ![c] = RefreshIdle]
            /\ UNCHANGED <<queue, submitted>>
       ELSE /\ queue' = queue_task(queue, "get_customer_ui_list", <<Selection>>, c)
            /\ waiting' = [waiting EXCEPT ![c] = submitted + 1]
            /\ submitted' = submitted + 1
            /\ refresh' = [refresh EXCEPT ![c] = [at |-> "list", sel |-> Selection]]
            /\ UNCHANGED raised
    /\ UNCHANGED <<customers, projects, bonus, time, now, committed, pc, toggles,
                   executed, SELECTED_DATE, app_data, CURRENT_DATE, TIME_ID, TYPE_ID,
                   displayed, widgets, order, do_con, message, saved, table, editor,
                   forms, totals>>

\* the list arrives: update_ui_from_df writes the totals on the window;
\* len(df) raises when the worker answered with the exception it caught
RefreshApply(c) ==
    /\ refresh[c].at = "list"
    /\ channels[c] # <<>>
    /\ channels' = [channels EXCEPT ![c] = Tail(@)]
    /\ waiting' = [waiting EXCEPT ![c] = 0]
    /\ IF Head(channels[c]).error
       THEN raised' = raised \cup {c} /\ UNCHANGED displayed
       ELSE displayed' = refresh[c].sel /\ UNCHANGED raised
    /\ refresh' = [refresh EXCEPT ![c] = RefreshIdle]
    /\ UNCHANGED <<customers, projects, bonus, time, now, committed, pc, toggles,
                   queue, submitted, executed, SELECTED_DATE, app_data,
                   CURRENT_DATE, TIME_ID, TYPE_ID, widgets, order, do_con, message,
                   saved, table, editor, forms, totals>>

\* on_date_selected(sender, app_data), on the callback thread
OnDateSelected(struct) ==
    /\ SELECTED_DATE' = on_date_selected(struct)
    /\ app_data' = struct
    /\ run_update_ui_task("ui")
    /\ UNCHANGED <<CURRENT_DATE, TIME_ID, TYPE_ID>>

\* time_span_callback, on the callback thread
TimeSpanCallback(pressed_val) ==
    /\ TIME_ID' = pressed_val
    /\ run_update_ui_task("ui")
    /\ UNCHANGED <<SELECTED_DATE, app_data, CURRENT_DATE, TYPE_ID>>

\* data_type_callback, on the callback thread
DataTypeCallback(pressed_val) ==
    /\ TYPE_ID' = pressed_val
    /\ run_update_ui_task("ui")
    /\ UNCHANGED <<SELECTED_DATE, app_data, CURRENT_DATE, TIME_ID>>

\* periodic_update, 60 seconds after the last refresh: a new thread runs
\* run_update_ui_task
PeriodicRefresh ==
    /\ run_update_ui_task("timer")
    /\ UNCHANGED <<SELECTED_DATE, app_data, CURRENT_DATE, TIME_ID, TYPE_ID>>

\* periodic_update on the first frame of a new day
DateRollover ==
    /\ DateOf(now) > CURRENT_DATE
    /\ CURRENT_DATE' = DateOf(now)
    /\ SELECTED_DATE' = strftime(Calendar(DateOf(now)))
    /\ app_data' = get_current_date_struct(Calendar(DateOf(now)))
    /\ UNCHANGED <<customers, projects, bonus, time, now, committed, pc, toggles,
                   queue, dispatch, TIME_ID, TYPE_ID, refresh, displayed,
                   widgets, order, reports, forms, totals>>

\* the date picker and the refresh it starts
NextPicker ==
    \/ \E struct \in Structs : OnDateSelected(struct)
    \/ ProcessQueue
    \/ RefreshInput("ui")
    \/ RefreshApply("ui")
    \/ Midnight
    \/ DateRollover

SpecPicker == Init /\ [][NextPicker]_vars

\* the dates picked while refreshes run
RefreshStructs ==
    {struct \in Structs :
        struct.year = 126 /\ struct.month = 0 /\ struct.month_day \in {1, 9}}

\* the callbacks that change the selection, the periodic refresh, and the
\* two threads inside run_update_ui_task
NextRefresh ==
    \/ \E struct \in RefreshStructs : OnDateSelected(struct)
    \/ \E pressed_val \in TimeSpans : TimeSpanCallback(pressed_val)
    \/ \E pressed_val \in DataTypes : DataTypeCallback(pressed_val)
    \/ PeriodicRefresh
    \/ ProcessQueue
    \/ \E c \in Callers : RefreshInput(c)
    \/ \E c \in Callers : RefreshApply(c)

SpecRefresh == Init /\ [][NextRefresh]_vars

\* ------------------------------------------------------- the aggregates
\* the sum of the function f over the members of a finite set
RECURSIVE SumOver(_, _)
SumOver(S, f) ==
    IF S = {} THEN 0
    ELSE LET x == CHOOSE y \in S : TRUE
         IN f[x] + SumOver(S \ {x}, f)

\* __get_user_input for All-Time: the least and the greatest date of the
\* dates table
all_time_range == <<Min(dates), Max(dates)>>

\* __get_value: the rows of the join for one entry, one per bonus row in
\* effect on its start date, one with no bonus_percent when there is none
joined_bonus(row) ==
    {i \in Ids(bonus) :
        Between(DateOf(row.start_time), bonus[i].start_date, bonus[i].end_date,
                FarFuture)}

\* total_hours of an entry: a running entry of the asked date ends now, any
\* other running entry has no total and drops out of the sum
total_hours(row, date_key) ==
    LET end_time == IF row.end_time = NULL /\ row.date_key = date_key
                    THEN now ELSE row.end_time
    IN IF end_time = NULL THEN 0 ELSE end_time - row.start_time

\* what one entry adds to the sum of sum_column
summand(row, date_key, data_format) ==
    LET hits == joined_bonus(row)
        SumPct == [i \in hits |-> bonus[i].bonus_percent]
    IN IF data_format \in {0, 1}
       THEN total_hours(row, date_key) * Max({1, Cardinality(hits)})
       ELSE total_hours(row, date_key) * cost_rate(row.customer_id)
                * SumOver(hits, SumPct)

\* __get_value(customer_name, project_name, date_key) for the time_index
\* 0 (today) and 4 (all time)
get_value(customer_name, project_name, date_key, time_index, data_format) ==
    LET data == {i \in Ids(time) :
                    /\ time[i].customer_name = customer_name
                    /\ time[i].project_name = project_name
                    /\ time_index = 0 => time[i].date_key = date_key}
        Part == [i \in data |-> summand(time[i], date_key, data_format)]
    IN SumOver(data, Part)

\* the timers of one customer and the totals shown for them
NextAggregate ==
    \/ \E w \in EditWages : AddCustomer("A", 1, w)
    \/ \E p \in ProjectNames : AddProject(p, "A")
    \/ \E a \in EditBonus : AddBonus(a, MaxDate)
    \/ \E p \in ProjectNames : Toggle("A", p)
    \/ \E d \in Steps : Tick(d)
    \/ Midnight

SpecAggregate == Init /\ [][NextAggregate]_vars

\* ------------------------------------------------------------ the weeks
\* datetime.weekday() of a day of the horizon, Monday is 0: day 1,
\* 2025-12-31, is a Wednesday
weekday(d) == (d + 1) % 7

\* the days of the year before the first of each month (no leap year in
\* the horizon)
DaysBeforeMonth == <<0, 31, 59, 90, 120, 151, 181, 212, 243, 273, 304, 334>>

\* isocalendar(): the ISO year and week of a day are those of the Thursday
\* of its Monday-to-Sunday week
isocalendar(d) ==
    LET thursday == Calendar(d - weekday(d) + 3)
        day_of_year == DaysBeforeMonth[thursday.month] + thursday.day
    IN [year |-> thursday.year, week |-> ((day_of_year - 1) \div 7) + 1]

\* add_dates: the row of the dates table for one day
date_row(d) ==
    [date_key |-> d,
     year |-> Calendar(d).year,
     iso_year |-> isocalendar(d).year,
     month |-> Calendar(d).month,
     week |-> isocalendar(d).week,
     day |-> Calendar(d).day]

\* __get_user_input for the Week time span: the Monday of the selected
\* date and the day six days later
week_range(sel_date) ==
    LET start_date == sel_date - weekday(sel_date)
    IN <<start_date, start_date + 6>>

\* the entries the Week time span selects for the selected date
week_selector(sel_date) ==
    {i \in Ids(time) : /\ time[i].date_key >= week_range(sel_date)[1]
                       /\ time[i].date_key <= week_range(sel_date)[2]}

\* the 'weekly' preset of __autoset_query_window: the entries of the
\* calendar year of now whose week number is that of today
weekly_preset ==
    {i \in Ids(time) :
        /\ date_row(time[i].date_key).year = Calendar(DateOf(now)).year
        /\ date_row(time[i].date_key).week = date_row(DateOf(now)).week}

\* __get_value for the time_index 1 (week): the entries of the ISO year and
\* week of the asked date
weekly_summary(date_key) ==
    {i \in Ids(time) :
        /\ date_row(time[i].date_key).iso_year = date_row(date_key).iso_year
        /\ date_row(time[i].date_key).week = date_row(date_key).week}

\* ------------------------------------------------------ the display order
MaxMoveTasks == 6

\* a customer row is inserted: it is shown below the customers there are
AddHeader ==
    /\ move = NoMove
    /\ Len(sort_order) < MaxCustomers
    /\ sort_order' = Append(sort_order, Len(sort_order) + 1)
    /\ UNCHANGED <<customers, projects, bonus, time, now, committed, pc, toggles,
                   queue, dispatch, ui, widgets, move, reports, forms, totals>>

\* move_header_up (direction -1) and move_header_down (direction 1) up to
\* the wait of _get_header_df
MoveHeader(customer_id, direction) ==
    /\ move = NoMove
    /\ refresh["ui"] = RefreshIdle
    /\ waiting["ui"] = 0
    /\ customer_id \in DOMAIN sort_order
    /\ Len(queue) < MaxQueue
    /\ submitted + 3 <= MaxMoveTasks
    /\ queue' = queue_task(queue, "run_query", <<"headers">>, "ui")
    /\ waiting' = [waiting EXCEPT !["ui"] = submitted + 1]
    /\ submitted' = submitted + 1
    /\ move' = [at |-> "read", customer_id |-> customer_id, direction |-> direction]
    /\ UNCHANGED <<customers, projects, bonus, time, now, committed, pc, toggles,
                   executed, channels, ui, widgets, sort_order, reports, forms, totals>>

\* the header rows arrive: return at the top (bottom), else queue q1, the
\* update of the moved customer; df["customer_id"] raises when the worker
\* answered with the exception it caught, nex_rows.iloc[0] when no customer
\* has the neighbouring sort_order
MoveFirst ==
    /\ move.at = "read"
    /\ channels["ui"] # <<>>
    /\ LET df == Head(channels["ui"]).sort_order
           cur_order == df[move.customer_id]
           orders == {df[i] : i \in DOMAIN df}
           edge == IF move.direction < 0 THEN Min(orders) ELSE Max(orders)
           nex_ids == {i \in DOMAIN df : df[i] = cur_order + move.direction}
       IN IF Head(channels["ui"]).error
          THEN /\ raised' = raised \cup {"ui"}
               /\ move' = NoMove
               /\ UNCHANGED <<queue, submitted>>
          ELSE IF cur_order = edge
          THEN /\ move' = NoMove
               /\ UNCHANGED <<queue, submitted, raised>>
          ELSE IF nex_ids = {}
          THEN /\ raised' = raised \cup {"ui"}
               /\ move' = NoMove
               /\ UNCHANGED <<queue, submitted>>
          ELSE /\ Len(queue) < MaxQueue
               /\ queue' = queue_task(queue, "run_query",
                               <<"update", {move.customer_id}, cur_order + move.direction>>,
                               NoResponse)
               /\ submitted' = submitted + 1
               /\ move' = [at |-> "q2", nex_ids |-> nex_ids, cur_order |-> cur_order]
               /\ UNCHANGED raised
    /\ channels' = [channels EXCEPT !["ui"] = Tail(@)]
    /\ waiting' = [waiting EXCEPT !["ui"] = 0]
    /\ UNCHANGED <<customers, projects, bonus, time, now, committed, pc, toggles,
                   executed, ui, widgets, sort_order, do_con, message, saved, table,
                   editor, forms, totals>>

\* q2, the update of the neighbour, is queued and render_customer_project_ui
\* draws the window anew
MoveSecond ==
    /\ move.at = "q2"
    /\ Len(queue) < MaxQueue
    /\ queue' = queue_task(queue, "run_query",
                    <<"update", move.nex_ids, move.cur_order, reports>>, NoResponse)
    /\ submitted' = submitted + 1
    /\ move' = NoMove
    /\ checked' = {pair \in Ids(customers) \X Ids(projects) :
                      /\ projects[pair[2]].customer_id = pair[1]
                      /\ projects[pair[2]].is_current
                      /\ \E i \in Ids(time) : /\ time[i].customer_id = pair[1]
                                              /\ time[i].project_id = pair[2]
                                              /\ time[i].end_time = NULL}
    /\ UNCHANGED <<customers, projects, bonus, time, now, committed, pc, toggles,
                   executed, channels, waiting, ui, popup, sort_order, reports,
                   forms, totals>>

\* the moves of the customers' headers while the periodic refresh reads
NextOrder ==
    \/ AddHeader
    \/ \E customer_id \in 1..MaxCustomers, direction \in {-1, 1} :
          MoveHeader(customer_id, direction)
    \/ MoveFirst
    \/ MoveSecond
    \/ PeriodicRefresh
    \/ RefreshInput("timer")
    \/ RefreshApply("timer")
    \/ ProcessQueue

SpecOrder == Init /\ [][NextOrder]_vars

\* -------------------------------------------------- the errors of storage
\* process_queue when the task fails: the worker catches the exception, puts
\* it on the task's response queue and goes on; the tables are as they were
ProcessQueueFault ==
    /\ queue # <<>>
    /\ pc = Idle
    /\ queue' = [i \in 1..(Len(queue) - 1) |->
                    IF i < get(queue) THEN queue[i] ELSE queue[i + 1]]
    /\ LET task == queue[get(queue)]
       IN /\ executed' = Append(executed, task.id)
          /\ channels' = IF task.response \in Callers
                         THEN [channels EXCEPT ![task.response] =
                                  Append(@, [id |-> task.id, error |-> TRUE,
                                             expects |-> task.expects, value |-> {},
                                             sort_order |-> <<>>])]
                         ELSE channels
    /\ UNCHANGED <<customers, projects, bonus, time, now, committed, pc, toggles,
                   submitted, waiting, ui, widgets, order, reports, forms, totals>>

\* what is typed into the query editor
QueryTexts == {"malformed", "select"}

\* handle_query_input up to r_queue.get()
HandleQueryInput(query_text) ==
    /\ editor = "idle"
    /\ move = NoMove
    /\ refresh["ui"] = RefreshIdle
    /\ waiting["ui"] = 0
    /\ Len(queue) < MaxQueue
    /\ submitted < MaxSubmitted
    /\ queue' = queue_task(queue, "run_query", <<query_text>>, "ui")
    /\ waiting' = [waiting EXCEPT !["ui"] = submitted + 1]
    /\ submitted' = submitted + 1
    /\ editor' = "wait"
    /\ UNCHANGED <<customers, projects, bonus, time, now, committed, pc, toggles,
                   executed, channels, ui, widgets, order, do_con, message, saved,
                   table, raised, forms, totals>>

\* the response arrives: an exception is shown in the message popup and the
\* handler returns, a data frame is drawn as the result table
QueryResponse ==
    /\ editor = "wait"
    /\ channels["ui"] # <<>>
    /\ LET df == Head(channels["ui"])
       IN IF df.error
          THEN message' = "Error" /\ UNCHANGED table
          ELSE table' = df /\ UNCHANGED message
    /\ channels' = [channels EXCEPT !["ui"] = Tail(@)]
    /\ waiting' = [waiting EXCEPT !["ui"] = 0]
    /\ editor' = "idle"
    /\ UNCHANGED <<customers, projects, bonus, time, now, committed, pc, toggles,
                   queue, submitted, executed, ui, widgets, order, do_con, saved,
                   raised, forms, totals>>

\* the callers that wait for an answer of the worker, the worker failing some
\* of their tasks
NextErrors ==
    \/ \E query_text \in QueryTexts : HandleQueryInput(query_text)
    \/ QueryResponse
    \/ AddHeader
    \/ \E customer_id \in 1..MaxCustomers, direction \in {-1, 1} :
          MoveHeader(customer_id, direction)
    \/ MoveFirst
    \/ MoveSecond
    \/ PeriodicRefresh
    \/ RefreshInput("timer")
    \/ RefreshApply("timer")
    \/ ProcessQueue
    \/ ProcessQueueFault

SpecErrors == Init /\ [][NextErrors]_vars

\* ---------------------------------------------------------- the checkboxes
\* select * from time where customer_id = .. and project_id = .. and
\* end_time is null
open_rows(customer_id, project_id) ==
    {i \in Ids(time) : /\ time[i].customer_id = customer_id
                       /\ time[i].project_id = project_id
                       /\ time[i].end_time = NULL}

\* the sequence s without its element at index k
RemoveAt(s, k) == [j \in 1..(Len(s) - 1) |-> IF j < k THEN s[j] ELSE s[j + 1]]

\* db.delete_time_row(customer_id, project_id): removes the running entry of
\* the pair, the one started last
db_delete_time_row(customer_id, project_id) ==
    IF open_rows(customer_id, project_id) = {} THEN time
    ELSE RemoveAt(time, Max(open_rows(customer_id, project_id)))

\* the checkboxes render_customer_project_ui draws: one per current project
\* of a customer
Checkboxes ==
    {pair \in Ids(customers) \X Ids(projects) : pair[2] \in project_options(pair[1])}

\* render_customer_project_ui: every checkbox is drawn anew, ticked when the
\* pair has a running entry
RenderCustomerProjectUi ==
    /\ pc = Idle
    /\ popup = NoPopup
    /\ checked' = {pair \in Checkboxes : open_rows(pair[1], pair[2]) # {}}
    /\ checked' # checked
    /\ UNCHANGED <<customers, projects, bonus, time, now, committed, pc, toggles,
                   queue, dispatch, ui, popup, order, reports, forms, totals>>

\* project_button_callback with app_data true: the box has been ticked
CheckProject(customer_id, project_id) ==
    /\ pc = Idle
    /\ popup = NoPopup
    /\ <<customer_id, project_id>> \in Checkboxes \ checked
    /\ Len(time) < MaxTime
    /\ checked' = checked \cup {<<customer_id, project_id>>}
    /\ time' = db_insert_time_row(customer_id, project_id, now, 0, "")
    /\ committed' = Snapshot(customers, projects, bonus, time')
    /\ UNCHANGED <<customers, projects, bonus, now, pc, toggles, queue, dispatch,
                   ui, popup, order, reports, forms, totals>>

\* project_button_callback with app_data false: the box has been cleared and
\* show_project_popup opens the modal stop popup
UncheckProject(customer_id, project_id) ==
    /\ pc = Idle
    /\ popup = NoPopup
    /\ <<customer_id, project_id>> \in Checkboxes \cap checked
    /\ checked' = checked \ {<<customer_id, project_id>>}
    /\ popup' = <<customer_id, project_id>>
    /\ UNCHANGED <<customers, projects, bonus, time, now, committed, pc, toggles,
                   queue, dispatch, ui, order, reports, forms, totals>>

\* what add_comment_to_work_item returns: nothing when the comment was
\* added, else the text of the failure
Statuses == {"", "RequestError"}

\* the program starts on the tables there are: a DevOpsClient is made for the
\* customers that have a token and an organisation, connect() is called on
\* it, and the first exception ends the loop; the window is drawn
Restart(clients) ==
    /\ pc = Idle
    /\ popup = NoPopup
    /\ move = NoMove
    /\ queue = <<>>
    /\ \A c \in Callers : waiting[c] = 0
    /\ DOMAIN clients \subseteq {customers[i].customer_name : i \in Ids(customers)}
    /\ Cardinality({n \in DOMAIN clients : clients[n] = "unconnected"}) <= 1
    /\ do_con' = clients
    /\ do_con' # do_con
    /\ checked' = {pair \in Checkboxes : open_rows(pair[1], pair[2]) # {}}
    /\ message' = NoMessage
    /\ UNCHANGED <<customers, projects, bonus, time, now, committed, pc, toggles,
                   queue, dispatch, ui, popup, order, saved, table, raised, editor,
                   forms, totals>>

\* save_popup_data: the toggle with the work-item id and the comment, then
\* the comment on the work item when Store to DevOps is ticked; status is
\* what add_comment_to_work_item returns when the customer's client is
\* connected. do_con[customer_name] raises KeyError when the customer has no
\* client, and the handler ends there
SavePopup(git_id, comment, store_to_devops, status) ==
    LET customer_name == customers[popup[1]].customer_name
        external == store_to_devops /\ git_id # 0 /\ comment # ""
        KeyError == external /\ customer_name \notin DOMAIN do_con
        returned == IF ~external THEN ""
                    ELSE IF do_con[customer_name] = "unconnected"
                    THEN "RequestError" ELSE status
    IN /\ pc = Idle
       /\ popup # NoPopup
       /\ Len(time) <= MaxTime
       /\ time' = db_insert_time_row(popup[1], popup[2], now, git_id, comment)
       /\ Len(time') <= MaxTime
       /\ committed' = Snapshot(customers, projects, bonus, time')
       /\ IF KeyError
          THEN /\ raised' = raised \cup {"ui"}
               /\ UNCHANGED <<popup, message>>
          ELSE /\ message' = IF returned # "" THEN returned ELSE message
               /\ popup' = NoPopup
               /\ UNCHANGED raised
       /\ saved' = [status |-> IF KeyError THEN "KeyError" ELSE returned,
                    external |-> external,
                    reported |-> message' # NoMessage,
                    closed |-> /\ open_rows(popup[1], popup[2]) # {}
                               /\ \A i \in open_rows(popup[1], popup[2]) :
                                     time'[i].end_time # NULL]
       /\ UNCHANGED <<customers, projects, bonus, now, pc, toggles, queue, dispatch,
                      ui, checked, order, do_con, table, editor, forms, totals>>

\* cancel_popup_action: dpg.set_value(sender, not app_data) ticks the box again
CancelPopup ==
    /\ pc = Idle
    /\ popup # NoPopup
    /\ checked' = checked \cup {popup}
    /\ popup' = NoPopup
    /\ UNCHANGED <<customers, projects, bonus, time, now, committed, pc, toggles,
                   queue, dispatch, ui, order, reports, forms, totals>>

\* delete_popup_action
DeletePopup ==
    /\ pc = Idle
    /\ popup # NoPopup
    /\ time' = db_delete_time_row(popup[1], popup[2])
    /\ committed' = Snapshot(customers, projects, bonus, time')
    /\ popup' = NoPopup
    /\ UNCHANGED <<customers, projects, bonus, now, pc, toggles, queue, dispatch,
                   ui, checked, order, reports, forms, totals>>

\* the timers of one customer with two projects, worked from the window
NextTimer ==
    \/ \E w \in EditWages : AddCustomer("A", 1, w)
    \/ \E p \in EditProjects : AddProjectWithin(p, "A", MaxProjectRows)
    \/ \E c \in Ids(customers), p \in Ids(projects) : CheckProject(c, p)
    \/ \E c \in Ids(customers), p \in Ids(projects) : UncheckProject(c, p)
    \/ \E g \in EditGitIds \cup {0}, m \in EditComments : SavePopup(g, m, FALSE, "")
    \/ CancelPopup
    \/ DeletePopup
    \/ RenderCustomerProjectUi
    \/ \E d \in Steps : Tick(d)
    \/ Midnight

SpecTimer == Init /\ [][NextTimer]_vars

\* ------------------------------------------------------ the work items
\* the dicts do_con can be over the names of the customers
Clients(names) ==
    UNION {[S -> {"connected", "unconnected"}] : S \in SUBSET names}

\* the stop popup with Store to DevOps, the program started anew now and then
NextDevOps ==
    \/ \E w \in EditWages : AddCustomer("A", 1, w)
    \/ \E p \in EditProjects : AddProjectWithin(p, "A", MaxProjects)
    \/ \E clients \in Clients(CustomerNames) : Restart(clients)
    \/ \E c \in Ids(customers), p \in Ids(projects) : CheckProject(c, p)
    \/ \E c \in Ids(customers), p \in Ids(projects) : UncheckProject(c, p)
    \/ \E g \in EditGitIds \cup {0}, m \in EditComments \cup {""},
          store_to_devops \in BOOLEAN, status \in Statuses :
          SavePopup(g, m, store_to_devops, status)
    \/ CancelPopup
    \/ DeletePopup
    \/ \E d \in Steps : Tick(d)

SpecDevOps == Init /\ [][NextDevOps]_vars

\* ------------------------------------------------------ the settings forms
\* what can stand in a name field
FormNames == {"", "A"}

\* what can stand in a date field: nothing, 2026-01-09, 2026-1-9,
\* 2026-02-30, 2026-13-01, 20260109
FormDates ==
    {<<>>,
     <<"2", "0", "2", "6", "-", "0", "1", "-", "0", "9">>,
     <<"2", "0", "2", "6", "-", "1", "-", "9">>,
     <<"2", "0", "2", "6", "-", "0", "2", "-", "3", "0">>,
     <<"2", "0", "2", "6", "-", "1", "3", "-", "0", "1">>,
     <<"2", "0", "2", "6", "0", "1", "0", "9">>}

\* what can stand in the Org-URL and the PAT-Token field
FormTexts == {"", "x"}

\* the callback thread is not inside another handler
CallbackFree ==
    /\ editor = "idle"
    /\ move = NoMove
    /\ popup = NoPopup
    /\ refresh["ui"] = RefreshIdle
    /\ waiting["ui"] = 0

\* __validate_devops_inputs(tag_type, org_url, pat_token); connects tells
\* whether DevOpsClient(pat_token, full_org_url).connect() returns
validate_devops_inputs(org_url, pat_token, connects) ==
    IF (org_url # "" /\ pat_token = "") \/ (org_url = "" /\ pat_token # "")
    THEN FALSE
    ELSE IF org_url # "" /\ pat_token # "" THEN connects ELSE TRUE

\* add_customer_data: the checks in the order of the code, then
\* db.queue_task("insert_customer", ...)
AddCustomerData(customer_name, start_date, amount, org_url, pat_token, connects) ==
    LET label == IF customer_name = "" THEN "Cannot have blank customer name!"
                 ELSE IF start_date = <<>> THEN "Cannot have blank start date!"
                 ELSE IF org_url # "" /\ pat_token # "" /\ ~connects
                      THEN "Org-URL and PAT-Token fails connection!"
                 ELSE IF ~validate_devops_inputs(org_url, pat_token, connects)
                      THEN "Both Org-URL and PAT-Token must be specified!"
                 ELSE IF is_valid_date(start_date) THEN "Adding customer to DB!"
                 ELSE "Invalid start date!"
    IN /\ CallbackFree
       /\ Len(queue) < MaxQueue
       /\ submitted < MaxSubmitted
       /\ IF label = "Adding customer to DB!"
          THEN /\ queue' = queue_task(queue, "insert_customer",
                               <<customer_name, start_date, amount>>, NoResponse)
               /\ submitted' = submitted + 1
          ELSE UNCHANGED <<queue, submitted>>
       /\ form' = [handler |-> "add_customer_data",
                   customer_name |-> customer_name, start_date |-> start_date,
                   org_url |-> org_url, pat_token |-> pat_token,
                   connects |-> connects, label |-> label,
                   enqueued |-> {queue'[i].op : i \in (Len(queue) + 1)..Len(queue')}]
       /\ UNCHANGED <<customers, projects, bonus, time, now, committed, pc, toggles,
                      executed, channels, waiting, ui, widgets, order, reports, totals>>

\* update_project_data: the checks in the order of the code (the second one
\* tests customer_name again), then db.queue_task("update_project", ...)
UpdateProjectData(customer_name, project_name, new_project_name, new_git_id) ==
    LET label == IF customer_name = "" THEN "No customer selected!"
                 ELSE IF customer_name = "" THEN "No project selected!"
                 ELSE IF new_project_name = "" THEN "Cannot have blank project name!"
                 ELSE "Updating project in DB!"
    IN /\ CallbackFree
       /\ Len(queue) < MaxQueue
       /\ submitted < MaxSubmitted
       /\ IF label = "Updating project in DB!"
          THEN /\ queue' = queue_task(queue, "update_project",
                               <<customer_name, project_name, new_project_name,
                                 new_git_id>>, NoResponse)
               /\ submitted' = submitted + 1
          ELSE UNCHANGED <<queue, submitted>>
       /\ form' = [handler |-> "update_project_data",
                   customer_name |-> customer_name, project_name |-> project_name,
                   new_project_name |-> new_project_name, label |-> label,
                   enqueued |-> {queue'[i].op : i \in (Len(queue) + 1)..Len(queue')}]
       /\ UNCHANGED <<customers, projects, bonus, time, now, committed, pc, toggles,
                      executed, channels, waiting, ui, widgets, order, reports, totals>>

\* add_bonus_data: the start date must not be blank, then
\* db.queue_task("insert_bonus", ...)
AddBonusData(amount, start_date) ==
    LET label == IF start_date = <<>> THEN "Cannot have blank start date!"
                 ELSE "Adding bonus to DB!"
    IN /\ CallbackFree
       /\ Len(queue) < MaxQueue
       /\ submitted < MaxSubmitted
       /\ IF label = "Adding bonus to DB!"
          THEN /\ queue' = queue_task(queue, "insert_bonus", <<amount, start_date>>,
                               NoResponse)
               /\ submitted' = submitted + 1
          ELSE UNCHANGED <<queue, submitted>>
       /\ form' = [handler |-> "add_bonus_data", start_date |-> start_date,
                   label |-> label,
                   enqueued |-> {queue'[i].op : i \in (Len(queue) + 1)..Len(queue')}]
       /\ UNCHANGED <<customers, projects, bonus, time, now, committed, pc, toggles,
                      executed, channels, waiting, ui, widgets, order, reports, totals>>

\* the forms of the settings window, filled in and sent
NextForms ==
    \/ \E customer_name \in FormNames, start_date \in FormDates, amount \in EditWages,
          org_url \in FormTexts, pat_token \in FormTexts, connects \in BOOLEAN :
          AddCustomerData(customer_name, start_date, amount, org_url, pat_token,
                          connects)
    \/ \E customer_name \in FormNames, project_name \in {"", "p"},
          new_project_name \in {"", "q"}, new_git_id \in EditGitIds :
          UpdateProjectData(customer_name, project_name, new_project_name, new_git_id)
    \/ \E amount \in EditBonus, start_date \in FormDates :
          AddBonusData(amount, start_date)

SpecForms == Init /\ [][NextForms]_vars

\* ------------------------------------------------- versions of a customer
MaxVersions == 3

\* __add_customer(data) for a customer that is not disabled: insert_customer
\* closes the current row the day before s_date and appends the new version
AddCustomerVersion(c_name, s_date, wage) ==
    /\ pc.op = "idle"
    /\ add_customer_branch(c_name) # "reactivate"
    /\ Len(customers) < MaxVersions
    /\ customers' = add_customer(c_name, s_date, wage)
    /\ UNCHANGED <<projects, bonus, time, now, committed, pc, toggles, queue,
                   dispatch, ui, widgets, order, reports, forms, totals>>

\* wage changes of the customers, entered with any effective date
NextVersions ==
    \/ \E c \in CustomerNames, d \in Dates, w \in Wages :
          AddCustomerVersion(c, d, w)
    \/ Midnight

SpecVersions == Init /\ [][NextVersions]_vars

\* ------------------------------------- projects of the same name
\* two customers, each with a project of the same name, and their timers
NextNames ==
    \/ \E c \in CustomerNames, d \in Dates, w \in Wages : AddCustomer(c, d, w)
    \/ \E p \in ProjectNames, c \in CustomerNames :
          AddProjectWithin(p, c, MaxProjectRows)
    \/ \E c \in CustomerNames, p \in ProjectNames : Toggle(c, p)
    \/ Midnight

SpecNames == Init /\ [][NextNames]_vars

\* ------------------------------------------------- the totals on the window
\* the answers of the worker to get_customer_ui_list: one row per project
\* with time in the range, in the order of the window
SummaryTimes == {1, 2}
SummaryBonus == {10}

SummaryRow(k) ==
    [customer_id : {SummaryKeys[k][1]}, project_id : {SummaryKeys[k][2]},
     total_time : SummaryTimes, user_bonus : SummaryBonus]

KeyOf(row) ==
    CHOOSE k \in DOMAIN SummaryKeys :
        SummaryKeys[k] = <<row.customer_id, row.project_id>>

Summaries ==
    {df \in UNION {[1..n -> UNION {SummaryRow(k) : k \in DOMAIN SummaryKeys}] :
                      n \in 0..Len(SummaryKeys)} :
        \A i, j \in DOMAIN df : i < j => KeyOf(df[i]) < KeyOf(df[j])}

\* sel_type of __get_user_input
sel_type_of(type_id) == IF type_id = 0 THEN "total_time" ELSE "cost"

\* the column sel_type shows and its unit
shown_value(row, sel_type) ==
    IF sel_type = "total_time" THEN row.total_time ELSE row.user_bonus

unit_of(sel_type) == IF sel_type = "total_time" THEN "h" ELSE "SEK"

\* df[df["customer_id"] == customer_id][column].sum()
RECURSIVE column_sum(_, _, _, _)
column_sum(df, customer_id, sel_type, n) ==
    IF n = 0 THEN 0
    ELSE column_sum(df, customer_id, sel_type, n - 1)
            + (IF df[n].customer_id = customer_id
               THEN shown_value(df[n], sel_type) ELSE 0)

\* update_ui_from_df(df, sel_type): the text of every row of df, then the
\* total of every customer of df
update_ui_from_df(df, sel_type) ==
    [tag \in Tags |->
        IF tag[1] = "time"
        THEN LET rows == {i \in DOMAIN df : /\ df[i].customer_id = tag[2]
                                             /\ df[i].project_id = tag[3]}
             IN IF rows = {} THEN texts[tag]
                ELSE [value |-> shown_value(df[Max(rows)], sel_type),
                      unit |-> unit_of(sel_type)]
        ELSE IF \E i \in DOMAIN df : df[i].customer_id = tag[2]
             THEN [value |-> column_sum(df, tag[2], sel_type, Len(df)),
                   unit |-> unit_of(sel_type)]
             ELSE texts[tag]]

\* run_update_ui_task from df = r_queue.get() on: if len(df) > 1:
\* update_ui_from_df(df, sel_type)
show_summary(df, sel_type) ==
    IF Len(df) > 1 THEN update_ui_from_df(df, sel_type) ELSE texts

\* the list arrives at the thread c with the rows df: run_update_ui_task
\* from df = r_queue.get() to its end
RefreshApplyRows(c, df) ==
    /\ refresh[c].at = "list"
    /\ channels[c] # <<>>
    /\ ~Head(channels[c]).error
    /\ channels' = [channels EXCEPT ![c] = Tail(@)]
    /\ waiting' = [waiting EXCEPT ![c] = 0]
    /\ texts' = show_summary(df, sel_type_of(refresh[c].sel.TYPE_ID))
    /\ summary' = [df |-> df, sel_type |-> sel_type_of(refresh[c].sel.TYPE_ID)]
    /\ displayed' = IF Len(df) > 1 THEN refresh[c].sel ELSE displayed
    /\ refresh' = [refresh EXCEPT ![c] = RefreshIdle]
    /\ UNCHANGED <<customers, projects, bonus, time, now, committed, pc, toggles,
                   queue, submitted, executed, SELECTED_DATE, app_data,
                   CURRENT_DATE, TIME_ID, TYPE_ID, widgets, order, reports, forms>>

\* the data type buttons, the periodic refresh, and the rows the refreshes
\* end with
NextTotals ==
    \/ \E pressed_val \in DataTypes : DataTypeCallback(pressed_val)
    \/ PeriodicRefresh
    \/ ProcessQueue
    \/ \E c \in Callers : RefreshInput(c)
    \/ \E c \in Callers, df \in Summaries : RefreshApplyRows(c, df)

SpecTotals == Init /\ [][NextTotals]_vars

\* =================================================================== claims
OpenRows(c_id, p_id) ==
    {i \in Ids(time) : /\ time[i].customer_id = c_id
                       /\ time[i].project_id = p_id
                       /\ time[i].end_time = NULL}

\* C1: in every reachable state at most one time entry per (customer_id,
\* project_id) pair has end_time = null, whatever the dates of the toggles.
C1_AtMostOneOpenSpan ==
    \A i \in Ids(time) :
        Cardinality(OpenRows(time[i].customer_id, time[i].project_id)) <= 1

RowsOfPair(pr) ==
    {i \in Ids(time) : /\ time[i].customer_name = pr[1]
                       /\ time[i].project_name = pr[2]}

FullyClosed(i) ==
    /\ time[i].end_time # NULL
    /\ time[i].total_time # <<>>
    /\ time[i].cost # <<>>
    /\ time[i].wage # <<>>
    /\ time[i].bonus # NULL

OpenCloseReopen == <<"open", "close", "open">>

\* C3 as stated: after open, close, reopen on a pair that had no entries the
\* pair has two fully-closed rows plus one open row.
C3_TwoClosedOneOpen ==
    \A pr \in Pairs :
        toggles[pr] = OpenCloseReopen =>
            /\ Cardinality({i \in RowsOfPair(pr) : FullyClosed(i)}) = 2
            /\ Cardinality({i \in RowsOfPair(pr) : time[i].end_time = NULL}) = 1

\* C3, amended: after open, close, reopen on a pair that had no entries the
\* pair has one fully-closed row plus one open row, and no other row.
C3_OneClosedOneOpen ==
    \A pr \in Pairs :
        toggles[pr] = OpenCloseReopen =>
            /\ Cardinality(RowsOfPair(pr)) = 2
            /\ Cardinality({i \in RowsOfPair(pr) : FullyClosed(i)}) = 1
            /\ Cardinality({i \in RowsOfPair(pr) : time[i].end_time = NULL}) = 1

C3_Witness == \E pr \in Pairs : toggles[pr] = OpenCloseReopen

\* a closed span of two hours at wage 100 under a bonus of 0.25
TwoHoursAt100(i) ==
    /\ time[i].end_time # NULL
    /\ time[i].end_time - time[i].start_time = 2
    /\ time[i].customer_id \in Ids(customers)
    /\ customers[time[i].customer_id].wage = 100
    /\ time[i].bonus = 25

\* C4 as stated: closing stores total_time = end - start in hours, cost =
\* total_time * wage, bonus amount = cost * bonus_percent; the 2-hour span at
\* wage 100 and bonus 0.25 has total_time = 2.0, cost = 200, bonus amount = 50
\* (5000 hundredths).
C4_ExactTwoHours ==
    \A i \in Ids(time) :
        TwoHoursAt100(i) =>
            /\ time[i].total_time = <<2, 0>>
            /\ time[i].cost = <<200, 0>>
            /\ time[i].wage = <<5000, 0>>

\* C4, amended: a closed row holds total_time = end - start in hours up to
\* the rounding of the julian-day doubles (less than 2^-26 hours), cost =
\* total_time * wage and bonus amount = cost * bonus_percent; the 2-hour span
\* at wage 100 and bonus 0.25 has total_time = 2 + 2^-28 or 2 - 2^-27, never
\* exactly 2.0, and cost and bonus amount are 100 and 25 times that.
C4_ElapsedTimesRates ==
    \A i \in Ids(time) :
        time[i].end_time # NULL /\ time[i].total_time # <<>> =>
            LET tt == time[i].total_time
                w == customers[time[i].customer_id].wage
                b == time[i].bonus
            IN /\ tt[1] = time[i].end_time - time[i].start_time
               /\ tt[2] \in -3..3
               /\ time[i].cost = <<tt[1] * w, tt[2] * w>>
               /\ time[i].wage = <<tt[1] * w * b, tt[2] * w * b>>
               /\ TwoHoursAt100(i) =>
                     /\ tt \in {<<2, 1>>, <<2, -2>>}
                     /\ time[i].cost \in {<<200, 100>>, <<200, -200>>}
                     /\ time[i].wage \in {<<5000, 2500>>, <<5000, -5000>>}

C4_Witness == \E i \in Ids(time) : TwoHoursAt100(i) /\ time[i].total_time # <<>>

\* the rates whose interval contains the date d; a null upper bound is open
BonusInEffect(d) ==
    {bonus[i].bonus_percent : i \in {j \in Ids(bonus) :
        /\ bonus[j].start_date <= d
        /\ (bonus[j].end_date = NULL \/ d <= bonus[j].end_date)}}

WagesInEffect(c, d) ==
    {customers[i].wage : i \in {j \in Ids(customers) :
        /\ customers[j].customer_name = c
        /\ customers[j].valid_from <= d
        /\ (customers[j].valid_to = NULL \/ d <= customers[j].valid_to)}}

OrZero(S) == IF S = {} THEN {0} ELSE S

\* the step closes the open row i
Closes(i) == time[i].end_time = NULL /\ time'[i].end_time # NULL

\* the step rebills the closed row i
Rebills(i) == time[i].end_time # NULL /\ time'[i] # time[i]

BilledAtStartDate(i) ==
    LET d == DateOf(time[i].start_time)
    IN /\ time'[i].start_time = time[i].start_time
       /\ time'[i].bonus \in OrZero(BonusInEffect(d))
       /\ Closes(i) =>
             \E w \in OrZero(WagesInEffect(time[i].customer_name, d)) :
                 time'[i].cost = <<time'[i].total_time[1] * w,
                                   time'[i].total_time[2] * w>>

OpenBonus(tbl) == {i \in Ids(tbl) : tbl[i].end_date = NULL}

\* the step inserts a bonus row with no end date
InsertsOpenBonus ==
    /\ Len(bonus') = Len(bonus) + 1
    /\ bonus'[Len(bonus')].end_date = NULL

\* C6: after any sequence of bonus insertions at most one bonus row has
\* end_date = null; an insertion with no end_date sets the end_date of every
\* open-ended row to the new start date - 1 day, touches no other row, and
\* adds the new open-ended row, also when the start dates are equal.
C6_OneOpenEndedBonus ==
    [][/\ Cardinality(OpenBonus(bonus')) <= 1
       /\ InsertsOpenBonus =>
             LET new == bonus'[Len(bonus')]
             IN /\ OpenBonus(bonus') = {Len(bonus')}
                /\ \A i \in Ids(bonus) :
                      bonus'[i] = IF bonus[i].end_date = NULL
                                  THEN [bonus[i] EXCEPT
                                           !.end_date = new.start_date - 1]
                                  ELSE bonus[i]]_vars

\* two bonuses inserted with the same start date and no end date
C6_Witness ==
    \E i, j \in Ids(bonus) :
        /\ i < j
        /\ bonus[i].start_date = bonus[j].start_date
        /\ bonus[i].end_date = bonus[j].start_date - 1
        /\ bonus[j].end_date = NULL

\* C7: after any sequence of bonus insertions at most one bonus row's
\* [start_date, end_date] interval contains the current instant; the count
\* is the one __validate_db takes.
C7_OneBonusContainsNow == validate_count <= 1

CurrentVersions(tbl, c) ==
    {i \in Ids(tbl) : tbl[i].customer_name = c /\ tbl[i].is_current}

\* C5: every customer has at most one version row with is_current = true;
\* a step that inserts a version closes the previously current row of that
\* customer, and only it (valid_to = the new valid_from - 1 day, is_current
\* false), and leaves the new row as the customer's only current one.
C5_OneCurrentVersion ==
    [][/\ \A c \in CustomerNames : Cardinality(CurrentVersions(customers', c)) <= 1
       /\ Len(customers') = Len(customers) + 1 =>
             LET new == customers'[Len(customers')]
                 prev == CurrentVersions(customers, new.customer_name)
             IN /\ Cardinality(prev) <= 1
                /\ CurrentVersions(customers', new.customer_name) = {Len(customers')}
                /\ \A i \in Ids(customers) :
                      customers'[i] =
                          IF i \in prev
                          THEN [customers[i] EXCEPT !.is_current = FALSE,
                                                    !.valid_to = new.valid_from - 1]
                          ELSE customers[i]]_vars

\* a customer with a closed version followed by its current version
C5_Witness ==
    \E i, j \in Ids(customers) :
        /\ i < j
        /\ customers[i].customer_name = customers[j].customer_name
        /\ ~ customers[i].is_current
        /\ customers[i].valid_to = customers[j].valid_from - 1
        /\ customers[j].is_current

\* the dates asked for: the horizon, the day before it and two days after
ResolveDates == 0..(MaxDate + 2)

C10_AtomicVersionInsert ==
    \A c \in CustomerNames :
          /\ RowsNamed(committed.customers, c) # {} =>
                Cardinality(CurrentVersions(committed.customers, c)) = 1
          /\ pc = Idle /\ RowsNamed(customers, c) # {} =>
                Cardinality(CurrentVersions(customers, c)) = 1

\* between the two writes of a new version of a customer whose current
\* version is in the file
C10_Witness ==
    /\ pc.op = "insert_customer"
    /\ CurrentVersions(customers, pc.args[1]) = {}
    /\ Cardinality(CurrentVersions(committed.customers, pc.args[1])) = 1

\* the worker runs the oldest task, a toggle submitted while another toggle
\* of the same pair was waiting
RunsRacingToggle ==
    /\ queue # <<>>
    /\ queue' = Tail(queue)
    /\ Head(queue).op = "insert_time_row"
    /\ Head(queue).racing

C11_AtomicBonusSupersede ==
    committed.bonus # <<>> => OpenBonus(committed.bonus) # {}

\* the step disables the customer c: a current row of c stops being current
\* and no version is inserted
Disables(c) ==
    /\ Len(customers') = Len(customers)
    /\ \E i \in Ids(customers) :
          /\ customers[i].customer_name = c
          /\ customers[i].is_current /\ ~ customers'[i].is_current

\* C12: disabling a customer only sets is_current = false on the rows of
\* that customer: no valid_from, valid_to or wage changes, no other
\* customer's row changes, no time entry, project or bonus is deleted or
\* altered, and the wage resolved for every customer and date is the same
\* after the disable as before it.
C12_DisableTouchesOnlyIsCurrent ==
    [][\A c \in CustomerNames :
          Disables(c) =>
              /\ \A i \in Ids(customers) :
                    customers'[i] =
                        IF customers[i].customer_name = c
                        THEN [customers[i] EXCEPT !.is_current = FALSE]
                        ELSE customers[i]
              /\ time' = time /\ projects' = projects /\ bonus' = bonus
              /\ \A n \in CustomerNames, d \in ResolveDates :
                    /\ get_customer_id(n, d)' = get_customer_id(n, d)
                    /\ resolve_wage(n, d)' = resolve_wage(n, d)]_vars

\* a disabled customer with a time entry that refers to it
C12_Witness ==
    \E i \in Ids(time) :
        /\ CurrentVersions(customers, time[i].customer_name) = {}
        /\ resolve_wage(time[i].customer_name, DateOf(time[i].start_time)) > 0

\* C13: customer_id is a stable identity: all version rows of one customer
\* carry the same customer_id (here the row index, the autoincrement key), so
\* the customer_id a project or time entry holds is that of every version of
\* its customer.
C13_StableCustomerId ==
    /\ \A i, j \in Ids(customers) :
          customers[i].customer_name = customers[j].customer_name => i = j
    /\ \A k \in Ids(projects) :
          projects[k].customer_id \in Ids(customers) =>
              \A j \in RowsNamed(customers,
                                 customers[projects[k].customer_id].customer_name) :
                  j = projects[k].customer_id

Range(s) == {s[i] : i \in Ids(s)}

\* C14: the dispatcher runs the tasks in the order of their submission: the
\* tasks run so far are the first ones submitted, in that order, the waiting
\* ones follow in that order, and the response of a task that ran is on its
\* caller's channel before any later task runs.
C14_FifoOrder ==
    /\ \A k \in Ids(executed) : executed[k] = k
    /\ \A k \in Ids(queue) : queue[k].id = Len(executed) + k
    /\ \A c \in Callers :
          /\ \A k \in Ids(channels[c]) : channels[c][k].id \in Range(executed)
          /\ waiting[c] \in Range(executed) =>
                \E k \in Ids(channels[c]) : channels[c][k].id = waiting[c]

C14_Witness ==
    /\ Len(executed) >= 2
    /\ queue # <<>>
    /\ \E c \in Callers : channels[c] # <<>> /\ channels[c][1].id = 1

C16_EveryTaskRunsOnce ==
    /\ \A id \in 1..MaxSubmitted : (submitted >= id) ~> (id \in Range(executed))
    /\ \A c \in Callers : (waiting[c] # 0) ~> (waiting[c] = 0)
    /\ [](\A i, j \in Ids(executed) : executed[i] = executed[j] => i = j)
    /\ [](\A c \in Callers :
             /\ Len(channels[c]) <= 1
             /\ waiting[c] = 0 => channels[c] = <<>>
             /\ channels[c] # <<>> => channels[c][1].id = waiting[c])

C16_Witness ==
    /\ queue # <<>>
    /\ \E c \in Callers :
          /\ waiting[c] # 0
          /\ channels[c] # <<>>
          /\ channels[c][1].id = waiting[c]

\* C17: a task that fails does not stop the worker: the step that runs it
\* changes no table, puts an error value carrying the task's id on the
\* caller's response queue, removes that task only, so that the later tasks
\* keep their order, and leaves the worker ready for the next one.
C17_FailureDoesNotStopWorker ==
    [][(/\ queue # <<>>
        /\ queue[get(queue)].op = "run_query"
        /\ queue' # queue
        /\ submitted' = submitted)
       => LET task == queue[get(queue)]
          IN /\ tables' = tables
             /\ committed' = committed
             /\ queue' = Tail(queue)
             /\ executed' = Append(executed, task.id)
             /\ pc' = Idle
             /\ task.response \in Callers =>
                   /\ Len(channels'[task.response])
                         = Len(channels[task.response]) + 1
                   /\ channels'[task.response][Len(channels'[task.response])].error
                   /\ channels'[task.response][Len(channels'[task.response])].id
                         = task.id]_vars

C17_Witness ==
    \E c \in Callers :
       /\ channels[c] # <<>>
       /\ channels[c][1].error
       /\ Len(executed) > channels[c][1].id

\* C18: read-your-writes: the result of a query reflects every write that
\* was waiting in the queue when the query was submitted: the customers
\* whose insert_customer was submitted before the query are in its result.
C18_ReadYourWrites ==
    \A c \in Callers : \A k \in Ids(channels[c]) :
       ~channels[c][k].error => channels[c][k].expects \subseteq channels[c][k].value

C18_Witness ==
    \E c \in Callers :
       /\ channels[c] # <<>>
       /\ ~channels[c][1].error
       /\ channels[c][1].expects # {}
       /\ channels[c][1].expects \subseteq channels[c][1].value

\* the customer a project row belongs to
OwnerOf(i) ==
    IF projects[i].customer_id \in Ids(customers)
    THEN customers[projects[i].customer_id].customer_name
    ELSE "none"

\* C19: a customer never has two project rows with the same name: adding
\* the name of a project the customer already has reactivates it or inserts
\* nothing.
C19_UniqueProjectNames ==
    \A i, j \in Ids(projects) :
       (/\ projects[i].project_name = projects[j].project_name
        /\ OwnerOf(i) = OwnerOf(j)
        /\ OwnerOf(i) # "none") => i = j

\* C20: an import of historic times adds closed entries only: when it ends,
\* every entry that was running when it began is still as it was, and every
\* entry it added has an end time.
C20_HistoricAddsClosedOnly ==
    [][(pc.op = "insert_historic_time" /\ pc' = Idle)
       => LET before == pc.args[4]
          IN /\ Len(time') >= Len(before)
             /\ \A i \in Ids(before) :
                   before[i].end_time = NULL => time'[i] = before[i]
             /\ \A i \in Ids(time') \ Ids(before) :
                   time'[i].end_time # NULL]_vars

\* an edit of the entry i that a toggle had closed, and whose start or end
\* changes
EditsBounds(i) ==
    /\ i \in Ids(time')
    /\ time[i].end_time # NULL
    /\ time[i].wage # NULL
    /\ \/ time'[i].start_time # time[i].start_time
       \/ time'[i].end_time # time[i].end_time

\* C21: after an edit that changes the start or the end of a closed entry,
\* the derived columns are those the close computation yields for the new
\* bounds: total_time the hours between them, cost total_time times the
\* customer's wage, user_bonus cost times the bonus percent in effect on the
\* new start date.
C21_EditRecomputesDerived ==
    [][\A i \in Ids(time) :
          EditsBounds(i) =>
              LET new == time'[i]
                  total == ElapsedHours(new.start_time, new.end_time)
                  rate == cost_rate(new.customer_id)
                  pct == bonus_rate(DateOf(new.start_time))
              IN /\ new.total_time = total
                 /\ new.cost = Times(total, rate)
                 /\ new.user_bonus = Times(Times(total, rate), pct)]_vars

\* the same with the wage and the bonus percent kept on the entry
C21_EditRecomputesWithStoredRates ==
    [][\A i \in Ids(time) :
          EditsBounds(i) =>
              LET new == time'[i]
                  total == ElapsedHours(new.start_time, new.end_time)
              IN /\ new.total_time = total
                 /\ new.cost = Times(total, new.wage)
                 /\ new.user_bonus = Times(Times(total, new.wage), new.bonus)
                 /\ new.wage = time[i].wage
                 /\ new.bonus = time[i].bonus]_vars

\* C22: the customer and the project of a time entry never change after the
\* entry is created: no step changes the customer_id, customer_name,
\* project_id or project_name of an entry.
C22_EntryKeepsCustomerAndProject ==
    [][\A i \in Ids(time) :
          i \in Ids(time') =>
              /\ time'[i].customer_id = time[i].customer_id
              /\ time'[i].customer_name = time[i].customer_name
              /\ time'[i].project_id = time[i].project_id
              /\ time'[i].project_name = time[i].project_name]_vars

\* the ISO text of the date a picker struct stands for
IsoDate(struct) ==
    Format(1900 + struct.year, 4) \o <<"-">> \o Format(struct.month + 1, 2)
        \o <<"-">> \o Format(struct.month_day, 2)

\* C23: the text stored for a picker struct (year offset y, zero-indexed
\* month m, day d) is the ISO date (1900+y)-(m+1)-d zero-padded as
\* YYYY-MM-DD, it is the text __format_date_struct gives for the struct, and
\* a date turned into a struct and formatted again is the same date.
C23_DateStructNormalization ==
    /\ SELECTED_DATE = IsoDate(app_data)
    /\ SELECTED_DATE = format_date_struct(app_data)
    /\ Len(SELECTED_DATE) = 10
    /\ \A d \in Dates :
          format_date_struct(get_current_date_struct(Calendar(d)))
              = strftime(Calendar(d))

C23_Witness ==
    /\ app_data.month = 0
    /\ app_data.month_day = 9
    /\ SELECTED_DATE[6] = "0" /\ SELECTED_DATE[7] = "1"
    /\ SELECTED_DATE[9] = "0" /\ SELECTED_DATE[10] = "9"
    /\ displayed # <<>>

\* C24: the All-Time range is the least and the greatest date of the dates
\* table, and for every pair, whatever date is selected, the All-Time total
\* is the sum over every date of the table of the pair's total of that day.
C24_AllTimeIsSumOfDays ==
    /\ all_time_range = <<Min(dates), Max(dates)>>
    /\ \A pair \in Pairs, date_key \in dates, data_format \in {0, 2} :
          LET Day == [d \in dates |-> get_value(pair[1], pair[2], d, 0, data_format)]
          IN get_value(pair[1], pair[2], date_key, 4, data_format)
                = SumOver(dates, Day)

\* the same when no entry is running
C24_AllTimeIsSumOfDaysClosed ==
    (\A i \in Ids(time) : time[i].end_time # NULL) => C24_AllTimeIsSumOfDays

\* the entries whose date lies in the Monday-to-Sunday week of a date
SameWeek(ref) ==
    {i \in Ids(time) :
        time[i].date_key - weekday(time[i].date_key) = ref - weekday(ref)}

\* C25: for every reference date the Week time span, the 'weekly' preset
\* (whose reference date is today) and the weekly summary select exactly the
\* entries whose date lies in the ISO week, Monday to Sunday, of the
\* reference date
C25_WeekBoundariesMatch ==
    /\ \A ref \in Dates :
        /\ week_selector(ref) = SameWeek(ref)
        /\ weekly_summary(ref) = SameWeek(ref)
    /\ weekly_preset = SameWeek(DateOf(now))

\* the Week time span and the weekly summary select the entries of the
\* Monday-to-Sunday week of the reference date
C25_SelectorAndSummaryMatch ==
    \A ref \in Dates :
        /\ week_selector(ref) = SameWeek(ref)
        /\ weekly_summary(ref) = SameWeek(ref)

C26_CheckboxTracksOpenSpanToday ==
    (popup = NoPopup /\ \A i \in Ids(time) : time[i].date_key = DateOf(now)) =>
        \A pair \in Checkboxes :
            pair \in checked <=> open_rows(pair[1], pair[2]) # {}

\* C27: once every refresh has finished, the totals on the window are those
\* of the time span, data type and date selected last
C27_NewestSelectionDisplayed ==
    (displayed # <<>> /\ \A c \in Callers : refresh[c] = RefreshIdle) =>
        displayed = Selection

\* C28: every read of the customers sees the sort orders as they were before
\* a move or as they are after it: no answer of the worker holds two
\* customers with the same sort_order
C28_SwapSeenWhole ==
    \A c \in Callers : \A k \in DOMAIN channels[c] :
        LET df == channels[c][k].sort_order
        IN \A i, j \in DOMAIN df : i # j => df[i] # df[j]

\* once the worker has run every queued task the swap is complete
C28_SwapCompleteWhenQueueEmpty ==
    (queue = <<>> /\ move = NoMove) =>
        \A i, j \in DOMAIN sort_order : i # j => sort_order[i] # sort_order[j]

\* C29: no thread fails on an answer of the worker that is an error, and the
\* result table of the query editor is never drawn from an error
C29_CallersCheckErrors ==
    /\ raised = {}
    /\ table # NoTable => ~table.error

\* handle_query_input: an error answer is shown in the message popup, the
\* result table stays as it was and no thread fails
C29_EditorShowsErrorPopup ==
    [][(editor = "wait" /\ editor' = "idle" /\ Head(channels["ui"]).error) =>
          (message' # NoMessage /\ table' = table /\ raised' = raised)]_vars

\* the result table of the query editor is never drawn from an error
C29_NoTableFromError == table # NoTable => ~table.error

\* C30: when the stop popup has been saved the entry is closed, and when the
\* comment could not be added to the work item (the call failed, or the
\* customer has no client or an unconnected one) a status message is shown
C30_FailureReportedSpanClosed ==
    saved # NoSave =>
        /\ saved.closed
        /\ (saved.external /\ saved.status # "") => saved.reported

\* the same as long as no save met a customer without a client
C30_StatusOfClientReported ==
    (saved # NoSave /\ raised = {}) =>
        /\ saved.closed
        /\ (saved.external /\ saved.status # "") => saved.reported

\* a text of the form YYYY-MM-DD that names a day of the calendar
WellFormedDate(s) ==
    /\ Len(s) = 10
    /\ s[5] = "-" /\ s[8] = "-"
    /\ \A i \in {1, 2, 3, 4, 6, 7, 9, 10} : IsDigit(s[i])
    /\ Number(SubSeq(s, 1, 4)) >= 1
    /\ Number(SubSeq(s, 6, 7)) \in 1..12
    /\ Number(SubSeq(s, 9, 10)) \in
          1..days_in_month(Number(SubSeq(s, 1, 4)), Number(SubSeq(s, 6, 7)))

\* the DevOps fields are both blank, or both given with a connection that
\* can be made
DevOpsFieldsPass ==
    \/ form.org_url = "" /\ form.pat_token = ""
    \/ form.org_url # "" /\ form.pat_token # "" /\ form.connects

\* C31: add_customer_data enqueues insert_customer, and nothing else, exactly
\* when the name is not blank, the start date is a valid YYYY-MM-DD date and
\* the DevOps fields pass; otherwise it enqueues nothing
C31_CustomerFormValidated ==
    form.handler = "add_customer_data" =>
        IF /\ form.customer_name # ""
           /\ WellFormedDate(form.start_date)
           /\ DevOpsFieldsPass
        THEN form.enqueued = {"insert_customer"}
        ELSE form.enqueued = {}

\* the same with the dates datetime.strptime takes for "%Y-%m-%d"
C31_CustomerFormValidatedLax ==
    form.handler = "add_customer_data" =>
        IF /\ form.customer_name # ""
           /\ form.start_date # <<>>
           /\ is_valid_date(form.start_date)
           /\ DevOpsFieldsPass
        THEN form.enqueued = {"insert_customer"}
        ELSE form.enqueued = {}

\* C32: update_project_data enqueues nothing when no customer is selected,
\* no project is selected or the new project name is blank
C32_ProjectFormValidated ==
    (/\ form.handler = "update_project_data"
     /\ \/ form.customer_name = ""
        \/ form.project_name = ""
        \/ form.new_project_name = "") => form.enqueued = {}

\* the same without the test of the selected project
C32_ProjectFormCustomerAndName ==
    (/\ form.handler = "update_project_data"
     /\ \/ form.customer_name = ""
        \/ form.new_project_name = "") => form.enqueued = {}

\* C33: add_bonus_data enqueues nothing when the start date is blank or is
\* not a well-formed date
C33_BonusFormValidated ==
    (form.handler = "add_bonus_data" /\ ~WellFormedDate(form.start_date)) =>
        form.enqueued = {}

\* add_bonus_data enqueues nothing when the start date is blank
C33_BonusFormBlankDate ==
    (form.handler = "add_bonus_data" /\ form.start_date = <<>>) =>
        form.enqueued = {}

\* C34: in every reachable state, after timer toggles and after edits of
\* start_time and end_time of a row, the date_key of every time entry is the
\* date of its start_time
C34_DateKeyIsStartDate ==
    \A i \in Ids(time) : time[i].date_key = DateOf(time[i].start_time)

\* what holds of the rows no edit has moved: a toggle writes both columns
\* from the same clock reading
C34_ToggleWritesStartDate ==
    [][\A c \in 1..MaxCustomers, p \in 1..MaxProjectRows :
          (DbToggle(c, p) /\ Len(time') > Len(time)) =>
             time'[Len(time')].date_key = DateOf(time'[Len(time')].start_time)]_vars

\* the days on which __get_customer_id resolves to both rows i and j
SharedDays(i, j) ==
    {d \in 0..(MaxDate + 1) :
        /\ Between(d, customers[i].valid_from, customers[i].valid_to, FarFuture)
        /\ Between(d, customers[j].valid_from, customers[j].valid_to, FarFuture)}

\* C35: after any sequence of insertions of customer versions, also of a
\* version whose effective date is earlier than an existing valid_from, the
\* validity intervals of the versions of one customer are pairwise disjoint
C35_VersionsDisjoint ==
    \A i, j \in Ids(customers) :
        (i # j /\ customers[i].customer_name = customers[j].customer_name) =>
            SharedDays(i, j) = {}

\* what holds when every version is entered with a later effective date than
\* the versions before it
C35_VersionsDisjointForward ==
    (\A i, j \in Ids(customers) :
        (i < j /\ customers[i].customer_name = customers[j].customer_name) =>
            customers[i].valid_from < customers[j].valid_from)
    => C35_VersionsDisjoint

\* the active projects whose customer row carries the name c_name
ActiveOf(c_name) ==
    {k \in get_active_projects :
        customers[projects[k].customer_id].customer_name = c_name}

\* C36: an update of a customer propagates to its projects: every project
\* that was active for the customer before the update is listed as active for
\* it afterwards, with its button to start and stop the timer
C36_UpdateKeepsProjects ==
    [][\A c \in CustomerNames, d \in Dates, w \in Wages :
          (AddCustomer(c, d, w) /\ add_customer_branch(c) = "update") =>
             /\ ActiveOf(c) \subseteq ActiveOf(c)'
             /\ \A k \in ActiveOf(c) : <<c, projects[k].project_name>> \in Buttons']_vars

\* what holds of an update: the projects of the other customers stay listed
C36_UpdateKeepsOtherProjects ==
    [][\A c \in CustomerNames, d \in Dates, w \in Wages :
          (AddCustomer(c, d, w) /\ add_customer_branch(c) = "update") =>
             \A o \in CustomerNames \ {c} : ActiveOf(o) = ActiveOf(o)']_vars

\* the rows of c_name that are current
CurrentOf(tbl, c_name) ==
    {i \in RowsNamed(tbl, c_name) : tbl[i].is_current}

\* the rows of c_name whose valid_to is open: the version in force when the
\* customer was disabled, which disabling leaves with valid_to open
OpenOf(tbl, c_name) ==
    {i \in RowsNamed(tbl, c_name) : tbl[i].valid_to = NULL}

\* C37: re-adding a disabled customer re-enables it: afterwards exactly one
\* version row of the customer is current, and it is the version that was
\* current (valid_to open) when the customer was disabled
C37_ReenableRestoresCurrent ==
    [][\A c \in CustomerNames, d \in Dates, w \in Wages :
          (AddCustomer(c, d, w) /\ add_customer_branch(c) = "reactivate") =>
             /\ Cardinality(CurrentOf(customers', c)) = 1
             /\ CurrentOf(customers', c) = OpenOf(customers, c)]_vars

\* what holds of re-adding a disabled customer: exactly one row becomes
\* current and no row is added or otherwise changed
C37_ReenableSetsOneRow ==
    [][\A c \in CustomerNames, d \in Dates, w \in Wages :
          (AddCustomer(c, d, w) /\ add_customer_branch(c) = "reactivate") =>
             /\ Cardinality(CurrentOf(customers', c)) = 1
             /\ Len(customers') = Len(customers)
             /\ \A i \in Ids(customers) :
                   customers'[i] = [customers[i] EXCEPT !.is_current = customers'[i].is_current]]_vars

\* C38: every time entry a toggle creates for (C, P) references a project row
\* that belongs to C, also when another customer has a project of the same
\* name
C38_EntryProjectOfCustomer ==
    \A i \in Ids(time) :
        /\ time[i].project_id \in Ids(projects)
        /\ projects[time[i].project_id].customer_id \in Ids(customers)
        /\ customers[projects[time[i].project_id].customer_id].customer_name
              = time[i].customer_name

\* what holds of every entry: the project row it references carries the
\* project name of the entry
C38_EntryProjectOfName ==
    \A i \in Ids(time) :
        /\ time[i].project_id \in Ids(projects)
        /\ projects[time[i].project_id].project_name = time[i].project_name

\* the texts on the window are those of the summary df under sel_type
ShowsSummary(df, sel_type) ==
    /\ \A i \in DOMAIN df :
          /\ texts[<<"time", df[i].customer_id, df[i].project_id>>]
                = [value |-> shown_value(df[i], sel_type), unit |-> unit_of(sel_type)]
          /\ texts[<<"total", df[i].customer_id>>]
                = [value |-> column_sum(df, df[i].customer_id, sel_type, Len(df)),
                   unit |-> unit_of(sel_type)]

\* C39: whenever a refresh has completed and its summary has at least one
\* row, the text of every row shows the row's value and the total of every
\* customer shows the sum of the customer's rows, for every number of rows,
\* also exactly one
C39_TotalsShowSummary ==
    (summary # NoSummary /\ Len(summary.df) >= 1) =>
        ShowsSummary(summary.df, summary.sel_type)

\* what holds: a summary of two rows or more is shown whole
C39_TotalsShowLongSummary ==
    (summary # NoSummary /\ Len(summary.df) > 1) =>
        ShowsSummary(summary.df, summary.sel_type)

\* C40: every response a caller takes from a response channel answers the
\* request this caller submitted last on that channel, also when the channel
\* is used again for the next request and while the other thread submits: no
\* response is put on another caller's channel, and none is left over from
\* an earlier request
C40_ResponseAnswersLastRequest ==
    [][/\ \A c \in Callers :
             Len(channels'[c]) < Len(channels[c]) =>
                 /\ Head(channels[c]).id = waiting[c]
                 /\ channels'[c] = <<>>
       /\ \A c \in Callers : \A k \in Ids(channels'[c]) :
             channels'[c][k].id = waiting'[c]]_vars

\* both callers hold the answer to a request of theirs at once, and the
\* two requests before these were answered on the same two channels
C40_Witness ==
    /\ customers = <<>>
    /\ Len(executed) = MaxSubmitted
    /\ \A c \in Callers :
          /\ channels[c] # <<>>
          /\ Head(channels[c]).id = waiting[c]
          /\ waiting[c] > 2

====
